---- MODULE Spec2Model ----
(***************************************************************************)
(* Conversation-turn orchestration of eve (src/eve/agent/llm.py):          *)
(*   - the retry policy wrapped around async_prompt (tenacity decorators), *)
(*   - the tool-call dispatcher (process_tool_call and the batch loop),    *)
(*   - the thread orchestration loop async_prompt_thread.                  *)
(***************************************************************************)
EXTENDS Integers, Sequences, FiniteSets, TLC

(***************************************************************************)
(* Retry policy: async_prompt, llm.py 261-304                              *)
(***************************************************************************)

\* stop_after_attempt(3) of the outer (rate-limit) tier
RateLimitAttempts == 3
\* stop_after_attempt(3) of the inner (transient) tier
TransientAttempts == 3
\* wait_exponential(multiplier=5, max=60)
RateLimitMultiplier == 5
RateLimitMaxWait == 60
\* wait_exponential(multiplier=2, max=30)
TransientMultiplier == 2
TransientMaxWait == 30

\* The exception types an underlying provider call is seen to raise.
\* ValueError stands for every type outside the two retried classes
\* (async_openai_prompt raises it when OPENAI_API_KEY is not set).
ErrorKinds == {"RateLimitError", "APIConnectionError", "InternalServerError", "ValueError"}

\* retry_if_exception predicate of the outer tier
IsRateLimitError(kind) == kind = "RateLimitError"

\* An inner tier that retries on every exception the outer tier does not.
IsAnyOtherError(kind) == kind # "RateLimitError"

\* retry_if_exception predicate of the inner tier
IsTransientError(kind) == kind \in {"APIConnectionError", "InternalServerError"}

RECURSIVE Pow2(_)
Pow2(n) == IF n <= 0 THEN 1 ELSE 2 * Pow2(n - 1)

Min(a, b) == IF a <= b THEN a ELSE b

\* A schedule that starts one doubling too late: multiplier * 2 ** attempt_number.
WaitExponentialLate(multiplier, maxWait, attempt) ==
    Min(multiplier * Pow2(attempt), maxWait)

\* tenacity wait_exponential: multiplier * 2 ** (attempt_number - 1), capped at max
WaitExponential(multiplier, maxWait, attempt) ==
    Min(multiplier * Pow2(attempt - 1), maxWait)

\* Without reraise=True tenacity raises a RetryError around the last exception.
ReraiseWrapped(err) == [err EXCEPT !.kind = "RetryError", !.wrapped = TRUE]

\* reraise=True: after the last attempt the attempt's own exception is raised
\* again, as it is; tenacity wraps it in a RetryError only without reraise.
Reraise(err) == err

NoError == [kind |-> "none", call |-> 0, wrapped |-> FALSE]

(***************************************************************************)
(* Thread, messages, tool calls and updates                                *)
(***************************************************************************)

\* Largest number of tool-call drafts one model result carries when the
\* dispatcher is exercised on its own (two batches need more than 4).
MaxCalls == 5
\* Largest number of tool-call drafts the model returns over a whole turn.
MaxTurnCalls == 1
\* Largest number of streamed chunks plus results asking for another round
\* (stop = false) that the model delivers over a whole turn.
MaxDelivered == 1

\* Largest number of drafts in one model result, exercised on its own, that
\* name a tool on offer.
MaxResolved == 1

\* Largest number of chunks and continuing results the model delivers when
\* streaming is exercised on its own.
MaxChunks == 3

\* Largest n_samples of a task handed to the task handler.
MaxSamples == 4

\* A dispatcher that hands every call of the message to gather at once.
BatchSizeUnlimited == MaxCalls

\* "handle tool calls in batches of 4"
BatchSize == 4

\* The tools the caller passes to async_prompt_thread.
CallerTools == {"search", "image_gen"}
\* BASE_TOOLS of eve.agent.tool
BaseTools == {"search"}
\* The tool names a model result may request.
DraftTools == {"search", "image_gen"}

\* Text is a sequence of fragments (words). What the model produces in one
\* piece: a reply, or one streamed fragment; <<>> is the empty string.
Contents == {<<>>, <<"ok">>}

\* str(e) of an exception raised by a collaborator (store, tool backend,
\* model provider, rate limiter): its text is not looked at by this code.
UpstreamError == "upstream error"

Apology == <<"I'm sorry, but something went wrong internally. Please try again later.">>

\* ToolCall as the model drafts it: no task, no status yet.
NewToolCall(name) ==
    [tool |-> name, status |-> "none", task |-> "none", error |-> "none", result |-> "none"]

UserMessage(id, content) ==
    [role |-> "user", id |-> id, content |-> content, reply_to |-> 0, tool_calls |-> <<>>]

\* An AssistantMessage built without its reply_to link.
AssistantMessageUnlinked(id, content, toolCalls, replyTo) ==
    [role |-> "assistant", id |-> id, content |-> content, reply_to |-> 0,
     tool_calls |-> toolCalls]

AssistantMessage(id, content, toolCalls, replyTo) ==
    [role |-> "assistant", id |-> id, content |-> content, reply_to |-> replyTo,
     tool_calls |-> toolCalls]

\* ThreadUpdate, with the fields no update of that type sets left at their defaults.
Update(type) ==
    [type |-> type, message |-> 0, tool_name |-> "none", tool_index |-> -1,
     result |-> "none", error |-> "none", text |-> <<>>]

\* A push that puts the new messages in front of the transcript.
PushMessagesFront(msgs, new) == new \o msgs

\* Thread.push: append messages, add an id to the active set, remove one.
\* pushActive / popActive are sets of ids (empty when the key is absent).
PushMessages(msgs, new) == msgs \o new
PushActive(act, pushActive, popActive) == (act \cup pushActive) \ popActive

\* Thread.update_tool_call: patch the fields of one ToolCall in place.
\* index is the 0-based position in the message's tool_calls.
UpdateToolCall(msgs, id, index, patch) ==
    [k \in DOMAIN msgs |->
        IF msgs[k].id = id
        THEN [msgs[k] EXCEPT !.tool_calls =
                [j \in DOMAIN @ |->
                    IF j = index + 1
                    THEN [f \in DOMAIN @[j] |->
                            IF f \in DOMAIN patch THEN patch[f] ELSE @[j][f]]
                    ELSE @[j]]]
        ELSE msgs[k]]

\* All sequences over S of length at most n.
RECURSIVE SeqsUpTo(_, _)
SeqsUpTo(S, n) ==
    IF n = 0 THEN {<<>>}
    ELSE LET shorter == SeqsUpTo(S, n - 1) IN
         shorter \cup {Append(q, x) : q \in {r \in shorter : Len(r) = n - 1}, x \in S}

Drafts(names) == [k \in DOMAIN names |-> NewToolCall(names[k])]

VARIABLES
    cfg,           \* the invocation's flags: USE_RATE_LIMITS, USE_THINKING, user_is_bot, force_reply, stream
    user_messages, \* the incoming user messages (normalised to a list)
    messages,      \* thread.messages: the transcript
    active,        \* thread.active: ids of user messages whose reply is in flight
    pc,            \* position of the async_prompt_thread generator
    thought,       \* the Thought of the turn
    tools,         \* local variable tools: names of the tools on offer
    stop,          \* local variable stop
    round,         \* number of round model calls made so far
    chunks,        \* streaming: content_chunks of the running round
    delivered,     \* number of chunks and of results with stop = false received so far
    cur,           \* id of the AssistantMessage whose tool calls are dispatched
    b,             \* batch offset of the dispatch loop
    tasks,         \* process_tool_call coroutines by tool_call_index: position and returned update
    creations,     \* tool_call indices for which a Creation was saved, by message id
    events,        \* the ThreadUpdates yielded to the caller so far
    exc,           \* the exception that left the generator ("none" if none)
    received,      \* streaming: the fragments the model has sent in the running round
    finished,      \* tool_call indices of the running batch in the order their coroutines returned
    quota,         \* how many chunks and continuing results the model delivers in this run
    signals        \* streaming: the finish reasons the model has sent in the running round

turnVars == <<cfg, user_messages, messages, active, pc, thought, tools, stop, round,
              chunks, delivered, cur, b, tasks, creations, events, exc,
              received, finished, quota, signals>>

VARIABLES
    rpc,          \* position of the guarded call: idle, call, sleepInner, sleepOuter, returned, raised
    outerAttempt, \* attempt_number of the rate-limit tier
    innerAttempt, \* attempt_number of the transient tier (restarts with every outer attempt)
    calls,        \* number of underlying provider calls made
    waits,        \* the backoff waits slept, in order
    trace,        \* outcome of each underlying call: "ok" or the error kind; then the items streamed
    raisedErr,    \* the exception the guarded call raised to its caller
    request       \* the streaming call's arguments and environment

retryVars == <<rpc, outerAttempt, innerAttempt, calls, waits, trace, raisedErr, request>>

VARIABLES
    mpc,          \* position of async_openai_prompt_stream: idle, stream, done, raised
    tool_calls,   \* local variable tool_calls: one slot per index, NoDraft where None
    deltas,       \* the tool-call deltas consumed so far: [index, arguments]
    yielded,      \* the TOOL_CALL items yielded after the stream
    merr          \* the exception that left the generator ("none" if none)

mergeVars == <<mpc, tool_calls, deltas, yielded, merr>>

VARIABLES
    hpc,          \* position of _task_handler: idle, loop, except, finally, returned, raised, waited
    task,         \* the Task document: status, result, error, cost, n_samples
    task_update,  \* local variable task_update (status "unbound" before its first assignment)
    results,      \* local variable results
    sample,       \* loop variable i
    outcomes,     \* how each sample run ended so far: "ok" or "error"
    refunds,      \* the amounts passed to user.refund_manna, in order
    returned,     \* status of the dict the handler returned ("none" if it has not returned)
    herr,         \* exception pending in or raised by the handler ("none" if none)
    waited        \* status async_wait handed to the waiter ("none" before)

handlerVars == <<hpc, task, task_update, results, sample, outcomes, refunds, returned, herr,
                 waited>>

otherVars == <<mergeVars, handlerVars>>

vars == <<retryVars, turnVars, otherVars>>

NoDraft == [tool |-> "none"]

MergeIdle ==
    /\ mpc = "idle"
    /\ tool_calls = <<>>
    /\ deltas = <<>>
    /\ yielded = <<>>
    /\ merr = "none"

NoUpdate == [status |-> "unbound", result |-> <<>>, error |-> "none"]

HandlerIdle ==
    /\ hpc = "off"
    /\ task = [status |-> "pending", result |-> <<>>, error |-> "none", cost |-> 0,
               n_samples |-> 1]
    /\ task_update = NoUpdate
    /\ results = <<>>
    /\ sample = 0
    /\ outcomes = <<>>
    /\ refunds = <<>>
    /\ returned = "none"
    /\ herr = "none"
    /\ waited = "none"

OtherIdle == MergeIdle /\ HandlerIdle

\* models (llm.py 42): one identifier of each provider.
ModelIds == {"claude-3-5-sonnet-20241022", "gpt-4o-mini"}

\* async_prompt_stream's model and response_model arguments, and whether
\* OPENAI_API_KEY is set.
StreamRequests == [model : ModelIds, response_model : BOOLEAN, api_key : BOOLEAN]

NoRequest == [model |-> "none", response_model |-> FALSE, api_key |-> FALSE]

RetryIdle ==
    /\ rpc = "idle"
    /\ request = NoRequest
    /\ outerAttempt = 0
    /\ innerAttempt = 0
    /\ calls = 0
    /\ waits = <<>>
    /\ trace = <<>>
    /\ raisedErr = NoError

\* The caller awaits async_prompt(...): first attempt of both tiers.
RetryBegin ==
    /\ rpc = "idle"
    /\ rpc' = "call"
    /\ outerAttempt' = 1
    /\ innerAttempt' = 1
    /\ UNCHANGED <<calls, waits, trace, raisedErr>>
    /\ UNCHANGED <<request, turnVars, otherVars>>

\* The underlying provider call returns a result.
RetryCallOk ==
    /\ rpc = "call"
    /\ calls' = calls + 1
    /\ trace' = Append(trace, "ok")
    /\ rpc' = "returned"
    /\ UNCHANGED <<outerAttempt, innerAttempt, waits, raisedErr>>
    /\ UNCHANGED <<request, turnVars, otherVars>>

\* The underlying provider call raises: the inner tier decides first, and
\* what it lets through is decided by the outer tier.
RetryCallFails ==
    /\ rpc = "call"
    /\ \E kind \in ErrorKinds :
        LET err == [kind |-> kind, call |-> calls + 1, wrapped |-> FALSE] IN
        /\ calls' = calls + 1
        /\ trace' = Append(trace, kind)
        /\ IF IsTransientError(kind) /\ innerAttempt < TransientAttempts
           THEN \* inner tier sleeps and retries
                /\ waits' = Append(waits,
                       WaitExponential(TransientMultiplier, TransientMaxWait, innerAttempt))
                /\ rpc' = "sleepInner"
                /\ UNCHANGED raisedErr
           ELSE IF IsRateLimitError(kind) /\ outerAttempt < RateLimitAttempts
           THEN \* inner tier lets it through, outer tier sleeps and retries
                /\ waits' = Append(waits,
                       WaitExponential(RateLimitMultiplier, RateLimitMaxWait, outerAttempt))
                /\ rpc' = "sleepOuter"
                /\ UNCHANGED raisedErr
           ELSE \* attempts exhausted, or an error neither tier retries
                /\ raisedErr' = IF IsTransientError(kind) \/ IsRateLimitError(kind)
                                THEN Reraise(err) ELSE err
                /\ rpc' = "raised"
                /\ UNCHANGED waits
    /\ UNCHANGED <<outerAttempt, innerAttempt>>
    /\ UNCHANGED <<request, turnVars, otherVars>>

\* The inner tier's sleep is over: next inner attempt.
RetryWakeInner ==
    /\ rpc = "sleepInner"
    /\ innerAttempt' = innerAttempt + 1
    /\ rpc' = "call"
    /\ UNCHANGED <<outerAttempt, calls, waits, trace, raisedErr>>
    /\ UNCHANGED <<request, turnVars, otherVars>>

\* An outer tier that does not count its attempts.
RetryWakeOuterUncounted ==
    /\ rpc = "sleepOuter"
    /\ innerAttempt' = 1
    /\ rpc' = "call"
    /\ UNCHANGED <<outerAttempt, calls, waits, trace, raisedErr>>
    /\ UNCHANGED <<request, turnVars, otherVars>>

\* The outer tier's sleep is over: next outer attempt, which calls the inner
\* tier anew (its attempt counter starts again at 1).
RetryWakeOuter ==
    /\ rpc = "sleepOuter"
    /\ outerAttempt' = outerAttempt + 1
    /\ innerAttempt' = 1
    /\ rpc' = "call"
    /\ UNCHANGED <<calls, waits, trace, raisedErr>>
    /\ UNCHANGED <<request, turnVars, otherVars>>

(***************************************************************************)
(* Tool-call dispatcher: process_tool_call (llm.py 634-718) and the batch  *)
(* loop of async_prompt_thread (llm.py 934-954)                            *)
(***************************************************************************)

CurPos == CHOOSE k \in DOMAIN messages : messages[k].id = cur

\* assistant_message.tool_calls or []
CurToolCalls == messages[CurPos].tool_calls

\* What tool.async_wait returns: the task's final status, with its error or
\* its result; media tells whether the output carries a filename and
\* mediaAttributes.
WaitResults ==
    {[status |-> "completed", error |-> "none", result |-> "output", media |-> TRUE],
     [status |-> "completed", error |-> "none", result |-> "output", media |-> FALSE],
     [status |-> "failed", error |-> "task error", result |-> "none", media |-> FALSE]}

\* A dispatcher that returns the update without writing the task's final
\* state to the ToolCall.
ResultPatchOmitted(res) == [task |-> "task"]

ResultPatch(res) == [status |-> res.status, error |-> res.error, result |-> res.result]

\* An update that numbers the calls from 1: enumerate(..., start=1).
ToolUpdateOneBased(type, i, res, err) ==
    [Update(type) EXCEPT !.tool_name = CurToolCalls[i + 1].tool, !.tool_index = i + 1,
                         !.result = res, !.error = err]

ToolUpdate(type, i, res, err) ==
    [Update(type) EXCEPT !.tool_name = CurToolCalls[i + 1].tool, !.tool_index = i,
                         !.result = res, !.error = err]

TaskAt(i, pos, upd) == [tasks EXCEPT ![i] = [pc |-> pos, update |-> upd]]

\* A lookup that resolves every name (tools.get never returns None).
ResolvesAny(name) == TRUE

\* tools.get(tool_call.tool) finds a tool
Resolves(name) == name \in tools

\* A batch slice that keeps no ceiling: tool_calls[b:]
BatchIndicesUnbounded(from, n) == {i \in 0..(n - 1) : from <= i}

\* The indices of tool_calls[b:b + 4], as b + idx
BatchIndices(from, n) == {i \in 0..(n - 1) : from <= i /\ i < from + BatchSize}

\* except Exception as e (llm.py 700-718): mark the ToolCall failed and return
\* an error update; update_tool_call may itself raise, and then the coroutine
\* raises. msgs is the transcript as the try block left it.
ToolHandleException(i, msgs, err) ==
    \/ /\ messages' = UpdateToolCall(msgs, cur, i, [status |-> "failed", error |-> err])
       /\ tasks' = TaskAt(i, "done", ToolUpdate("error", i, "none", err))
       /\ finished' = Append(finished, i)
    \/ /\ messages' = msgs
       /\ tasks' = TaskAt(i, "raised", Update("none"))
       /\ UNCHANGED finished

\* process_tool_call runs up to its first await: resolve the tool, call
\* tool.async_start_task.
ToolCallBegin(i) ==
    /\ i \in DOMAIN tasks
    /\ tasks[i].pc = "new"
    /\ IF Resolves(CurToolCalls[i + 1].tool)
       THEN /\ tasks' = TaskAt(i, "starting", Update("none"))
            /\ UNCHANGED <<messages, finished>>
       ELSE ToolHandleException(i, messages, "Tool not found.")
    /\ UNCHANGED <<cfg, quota, signals, received, user_messages, active, pc, thought, tools, stop, round, chunks,
                   delivered, cur, b, creations, events, exc>>
    /\ UNCHANGED <<retryVars, otherVars>>

\* tool.async_start_task returns (or raises); the task id and the status
\* are recorded on the ToolCall; tool.async_wait is called.
ToolCallStarted(i) ==
    /\ i \in DOMAIN tasks
    /\ tasks[i].pc = "starting"
    /\ \/ \* async_start_task raised, or update_tool_call did
          ToolHandleException(i, messages, UpstreamError)
       \/ /\ messages' = UpdateToolCall(messages, cur, i,
                             [task |-> "task", status |-> "pending"])
          /\ tasks' = TaskAt(i, "waiting", Update("none"))
          /\ UNCHANGED finished
    /\ UNCHANGED <<cfg, quota, signals, received, user_messages, active, pc, thought, tools, stop, round, chunks,
                   delivered, cur, b, creations, events, exc>>
    /\ UNCHANGED <<retryVars, otherVars>>

\* tool.async_wait returns the task's final state (or raises); it is patched
\* onto the ToolCall; a completed task with media output gets a Creation;
\* the coroutine returns its update.
ToolCallWaited(i) ==
    /\ i \in DOMAIN tasks
    /\ tasks[i].pc = "waiting"
    /\ \/ \* async_wait raised, or update_tool_call did
          /\ ToolHandleException(i, messages, UpstreamError)
          /\ UNCHANGED creations
       \/ \E res \in WaitResults :
            LET patched == UpdateToolCall(messages, cur, i, ResultPatch(res)) IN
            IF res.status = "completed"
            THEN \/ /\ messages' = patched
                    /\ creations' = IF res.media THEN creations \cup {<<cur, i>>}
                                    ELSE creations
                    /\ tasks' = TaskAt(i, "done",
                                    ToolUpdate("tool_complete", i, res.result, "none"))
                    /\ finished' = Append(finished, i)
                 \/ \* new_creation.save() raised
                    /\ res.media
                    /\ ToolHandleException(i, patched, UpstreamError)
                    /\ UNCHANGED creations
            ELSE /\ messages' = patched
                 /\ tasks' = TaskAt(i, "done", ToolUpdate("error", i, "none", res.error))
                 /\ finished' = Append(finished, i)
                 /\ UNCHANGED creations
    /\ UNCHANGED <<cfg, quota, signals, received, user_messages, active, pc, thought, tools, stop, round, chunks,
                   delivered, cur, b, events, exc>>
    /\ UNCHANGED <<retryVars, otherVars>>

\* for b in range(0, len(tool_calls), 4): the coroutines of the next batch
\* are created and handed to asyncio.gather.
LaunchBatch ==
    /\ pc = "dispatch"
    /\ b < Len(CurToolCalls)
    /\ tasks' = [i \in (DOMAIN tasks) \cup BatchIndices(b, Len(CurToolCalls)) |->
                    IF i \in DOMAIN tasks THEN tasks[i]
                    ELSE [pc |-> "new", update |-> Update("none")]]
    /\ finished' = <<>>
    /\ pc' = "gather"
    /\ UNCHANGED <<cfg, quota, signals, received, user_messages, messages, active, thought, tools, stop, round,
                   chunks, delivered, cur, b, creations, events, exc>>
    /\ UNCHANGED <<retryVars, otherVars>>

\* The updates of a finished batch in the order its coroutines returned
\* (asyncio.as_completed).
BatchResultsAsCompleted(from, S) ==
    [j \in 1..Len(finished) |-> tasks[finished[j]].update]

\* The updates of a finished batch in the order gather returns them: the
\* order of the awaitables.
RECURSIVE BatchResults(_, _)
BatchResults(from, S) ==
    IF from \notin S THEN <<>>
    ELSE <<tasks[from].update>> \o BatchResults(from + 1, S)

\* await asyncio.gather(*tasks) returns: every coroutine of the batch has
\* returned; the results are yielded.
GatherReturns ==
    /\ pc = "gather"
    /\ LET batch == {i \in DOMAIN tasks : i >= b} IN
       /\ \A i \in batch : tasks[i].pc = "done"
       /\ events' = events \o BatchResults(b, batch)
    /\ b' = b + BatchSize
    /\ pc' = "dispatch"
    /\ UNCHANGED <<cfg, quota, signals, received, user_messages, messages, active, thought, tools, stop, round,
                   chunks, delivered, cur, tasks, finished, creations, exc>>
    /\ UNCHANGED <<retryVars, otherVars>>

\* await asyncio.gather(*tasks, return_exceptions=False) raises as soon as
\* one coroutine of the batch has raised; the exception leaves the generator
\* (the dispatch loop is outside the try block). The other coroutines of the
\* batch keep running.
GatherRaises ==
    /\ pc = "gather"
    /\ \E i \in DOMAIN tasks : i >= b /\ tasks[i].pc = "raised"
    /\ pc' = "raised"
    /\ exc' = UpstreamError
    /\ UNCHANGED <<cfg, quota, signals, received, user_messages, messages, active, thought, tools, stop, round,
                   chunks, delivered, cur, b, tasks, finished, creations, events>>
    /\ UNCHANGED <<retryVars, otherVars>>

\* The batch loop is over: if stop: break, else the next round.
DispatchDone ==
    /\ pc = "dispatch"
    /\ b >= Len(CurToolCalls)
    /\ pc' = IF stop THEN "end" ELSE "round"
    /\ UNCHANGED <<cfg, quota, signals, received, user_messages, messages, active, thought, tools, stop, round,
                   chunks, delivered, cur, b, tasks, finished, creations, events, exc>>
    /\ UNCHANGED <<retryVars, otherVars>>

\* yield ThreadUpdate(type=UpdateType.END_PROMPT)
EndPrompt ==
    /\ pc = "end"
    /\ events' = Append(events, Update("end_prompt"))
    /\ pc' = "done"
    /\ UNCHANGED <<cfg, quota, signals, received, user_messages, messages, active, thought, tools, stop, round,
                   chunks, delivered, cur, b, tasks, finished, creations, exc>>
    /\ UNCHANGED <<retryVars, otherVars>>

NoThought == [intention |-> "none", tools |-> "none", recall_knowledge |-> "none"]

\* The dispatcher on its own: the state async_prompt_thread is in when the
\* last round's AssistantMessage, with its tool-call drafts, has been appended
\* and yielded; the Thought had selected the base tools.
InitDispatch ==
    /\ RetryIdle
    /\ OtherIdle
    /\ cfg = [rate_limits |-> FALSE, thinking |-> TRUE, bot |-> FALSE,
              force_reply |-> FALSE, stream |-> FALSE]
    /\ user_messages = <<UserMessage(2, <<"hey", "Eve">>)>>
    /\ \E names \in SeqsUpTo(DraftTools, MaxCalls) :
          /\ Cardinality({k \in DOMAIN names : names[k] \in BaseTools}) <= MaxResolved
          /\ messages = <<UserMessage(2, <<"hey", "Eve">>),
                          AssistantMessage(11, <<"ok">>, Drafts(names), 2)>>
    /\ active = {}
    /\ pc = "dispatch"
    /\ thought = [intention |-> "reply", tools |-> "base", recall_knowledge |-> FALSE]
    /\ tools = BaseTools
    /\ stop = TRUE
    /\ round = 1
    /\ chunks = <<>>
    /\ delivered = 0
    /\ cur = 11
    /\ b = 0
    /\ tasks = <<>>
    /\ creations = {}
    /\ events = <<Update("start_prompt"), [Update("assistant_message") EXCEPT !.message = 11]>>
    /\ exc = "none"
    /\ received = <<>>
    /\ finished = <<>>
    /\ quota = MaxDelivered
    /\ signals = <<>>

NextDispatch ==
    \/ \E i \in 0..(MaxCalls - 1) : ToolCallBegin(i)
    \/ \E i \in 0..(MaxCalls - 1) : ToolCallStarted(i)
    \/ \E i \in 0..(MaxCalls - 1) : ToolCallWaited(i)
    \/ LaunchBatch
    \/ GatherReturns
    \/ GatherRaises
    \/ DispatchDone
    \/ EndPrompt

(***************************************************************************)
(* Thread orchestration loop: async_prompt_thread (llm.py 721-960)         *)
(***************************************************************************)

\* thread.get_messages(25)
MessageWindow == 25

LastMessages(msgs, n) ==
    IF Len(msgs) <= n THEN msgs ELSE SubSeq(msgs, Len(msgs) - n + 1, Len(msgs))

\* user_message_id = user_messages[-1].id
UserMessageId == user_messages[Len(user_messages)].id

\* agent.name
AgentName == <<"E", "v", "e">>

\* The characters of a word of a user message.
Spelling(word) ==
    CASE word = "Eve" -> <<"E", "v", "e">>
      [] word = "eve" -> <<"e", "v", "e">>
      [] word = "EVE" -> <<"E", "V", "E">>
      [] word = "eve!" -> <<"e", "v", "e", "!">>
      [] word = "Steve" -> <<"S", "t", "e", "v", "e">>
      [] word = "evening" -> <<"e", "v", "e", "n", "i", "n", "g">>
      [] word = "hey" -> <<"h", "e", "y">>
      [] word = "hello" -> <<"h", "e", "l", "l", "o">>
      [] word = "earlier" -> <<"e", "a", "r", "l", "i", "e", "r">>

\* msg.content or "": the characters of a content, whose fragments are the
\* words of the message, one space between two words.
RECURSIVE Characters(_)
Characters(content) ==
    IF content = <<>> THEN <<>>
    ELSE IF Len(content) = 1 THEN Spelling(content[1])
    ELSE Spelling(content[1]) \o <<" ">> \o Characters(Tail(content))

\* str.lower() on the characters in use
LowerChar(c) ==
    CASE c = "E" -> "e"
      [] c = "V" -> "v"
      [] c = "S" -> "s"
      [] OTHER -> c

Lower(text) == [k \in DOMAIN text |-> LowerChar(text[k])]

\* \w of the regular expression, on the characters in use
IsWordChar(c) == c \notin {" ", "!"}

\* \b at the gap before position k of text (k = Len(text) + 1: the end)
WordBoundary(text, k) ==
    LET before == k > 1 /\ IsWordChar(text[k - 1])
        after == k <= Len(text) /\ IsWordChar(text[k])
    IN before # after

\* re.search(rf"\b{re.escape(name)}\b", text)
Search(name, text) ==
    \E k \in 1..(Len(text) - Len(name) + 1) :
        /\ SubSeq(text, k, k + Len(name) - 1) = name
        /\ WordBoundary(text, k)
        /\ WordBoundary(text, k + Len(name))

\* A test that looks for the name anywhere: agent.name.lower() in content.lower()
MentionedAnywhere(content) ==
    LET name == Lower(AgentName)
        text == Lower(Characters(content))
    IN \E k \in 1..(Len(text) - Len(name) + 1) : SubSeq(text, k, k + Len(name) - 1) = name

\* re.search(rf"\b{re.escape(agent.name.lower())}\b", (msg.content or "").lower())
Mentioned(content) == Search(Lower(AgentName), Lower(Characters(content)))

AgentMentioned == \E k \in DOMAIN user_messages : Mentioned(user_messages[k].content)

\* The recall_knowledge values the Intent step's model is seen to answer.
RecallChoices == {FALSE}

\* The Thought when USE_THINKING is off (llm.py 774-778): its tools entry is
\* the list ["base"], and it has no recall_knowledge entry.
FallbackThought ==
    [thought |-> "none",
     intention |-> IF AgentMentioned \/ cfg.force_reply THEN "reply" ELSE "ignore",
     tools |-> "[base]"]

\* Number of tool calls in the transcript.
RECURSIVE TotalCalls(_)
TotalCalls(msgs) ==
    IF msgs = <<>> THEN 0 ELSE Len(Head(msgs).tool_calls) + TotalCalls(Tail(msgs))

\* [tc.tool for msg in messages if msg.role == "assistant" for tc in msg.tool_calls]
CalledTools(msgs) ==
    UNION {{msgs[k].tool_calls[j].tool : j \in DOMAIN msgs[k].tool_calls} :
              k \in {n \in DOMAIN msgs : msgs[n].role = "assistant"}}

\* The tools left on offer after the narrowing of llm.py 810-818.
Narrowed(offer, msgs) ==
    IF thought.tools = "base"
    THEN {k \in offer : k \in CalledTools(msgs) \cup BaseTools}
    ELSE offer

NewAssistantId == 10 + Len(messages) + 1

\* Where the generator continues after the except block: stop = True; break
AfterTurnException == "end"

\* except Exception as e (llm.py 909-932): append the apology, clear the
\* active id, yield the error update, leave the loop. thread.push may itself
\* raise, and then the exception leaves the generator.
TurnHandleException(err) ==
    \/ /\ messages' = PushMessages(messages,
                          <<AssistantMessage(NewAssistantId, Apology, <<>>, UserMessageId)>>)
       /\ active' = PushActive(active, {}, {UserMessageId})
       /\ events' = Append(events, [Update("error") EXCEPT !.message = NewAssistantId,
                                                         !.error = err])
       /\ stop' = TRUE
       /\ pc' = AfterTurnException
       /\ UNCHANGED exc
    \/ /\ pc' = "raised"
       /\ exc' = UpstreamError
       /\ UNCHANGED <<messages, active, events, stop>>

\* An invocation that does not look at user_is_bot.
AfterRateLimitAnySender == "think"

\* An invocation that consults the limiter again after it let the sender pass.
AfterRateLimitAgain == "rate_limit"

\* if user_is_bot: return (llm.py 744-746), else on to the thinking step
AfterRateLimit == IF cfg.bot THEN "done" ELSE "think"

Begin ==
    /\ pc = "start"
    /\ pc' = IF cfg.rate_limits THEN "rate_limit" ELSE AfterRateLimit
    /\ UNCHANGED <<cfg, quota, signals, received, user_messages, messages, active, thought, tools, stop, round,
                   chunks, delivered, cur, b, tasks, finished, creations, events, exc>>
    /\ UNCHANGED <<retryVars, otherVars>>

\* await RateLimiter.check_chat_rate_limit(user.id, None) returns or raises;
\* it is awaited outside every try block.
RateLimitChecked ==
    /\ pc = "rate_limit"
    /\ \/ /\ pc' = AfterRateLimit
          /\ UNCHANGED exc
       \/ /\ pc' = "raised"
          /\ exc' = "rate limit exceeded"
    /\ UNCHANGED <<cfg, quota, signals, received, user_messages, messages, active, thought, tools, stop, round,
                   chunks, delivered, cur, b, tasks, finished, creations, events>>
    /\ UNCHANGED <<retryVars, otherVars>>

\* An Intent step that leaves its model's answer as it is.
ForceReplyIgnored(intention) == intention

\* if force_reply: thought.intention = "reply" (llm.py 611-612)
ForceReply(intention) == IF cfg.force_reply THEN "reply" ELSE intention

\* The thinking step (llm.py 748-778): async_think, or the fallback.
Think ==
    /\ pc = "think"
    /\ IF cfg.thinking
       THEN \/ \E intention \in {"ignore", "reply"}, category \in {"base", "creation"},
                  recall \in RecallChoices :
                 /\ thought' = [thought |-> "some",
                                intention |-> ForceReply(intention),
                                tools |-> category,
                                recall_knowledge |-> recall]
                 /\ pc' = "decide"
                 /\ UNCHANGED exc
            \/ \* async_think raised (its model call, or refresh_agent)
               /\ pc' = "raised"
               /\ exc' = UpstreamError
               /\ UNCHANGED thought
       ELSE /\ thought' = FallbackThought
            /\ pc' = "decide"
            /\ UNCHANGED exc
    /\ UNCHANGED <<cfg, quota, signals, received, user_messages, messages, active, tools, stop, round,
                   chunks, delivered, cur, b, tasks, finished, creations, events>>
    /\ UNCHANGED <<retryVars, otherVars>>

\* A decision that replies whatever the Thought says.
ShouldReplyAlways == TRUE

\* should_reply = thought["intention"] == "reply"
ShouldReply == thought.intention = "reply"

\* should_reply ... thread.push ... yield START_PROMPT (llm.py 790-802)
Decide ==
    /\ pc = "decide"
    /\ \/ /\ messages' = PushMessages(messages, user_messages)
          /\ IF ShouldReply
             THEN /\ active' = PushActive(active, {UserMessageId}, {})
                  /\ events' = Append(events, Update("start_prompt"))
                  /\ pc' = "round"
             ELSE /\ pc' = "done"
                  /\ UNCHANGED <<active, events>>
          /\ UNCHANGED exc
       \/ \* thread.push raised
          /\ pc' = "raised"
          /\ exc' = UpstreamError
          /\ UNCHANGED <<messages, active, events>>
    /\ UNCHANGED <<cfg, quota, signals, received, user_messages, thought, tools, stop, round,
                   chunks, delivered, cur, b, tasks, finished, creations>>
    /\ UNCHANGED <<retryVars, otherVars>>

\* One pass of the loop body up to the model call (llm.py 805-855): load the
\* messages, narrow the tools, build the system message, call the model.
RoundBegin ==
    /\ pc = "round"
    /\ tools' = Narrowed(tools, LastMessages(messages, MessageWindow))
    /\ IF "recall_knowledge" \notin DOMAIN thought
       THEN \* thought["recall_knowledge"] raises KeyError
            /\ TurnHandleException("'recall_knowledge'")
            /\ UNCHANGED <<round, chunks, received>>
       ELSE /\ round' = round + 1
            /\ chunks' = <<>>
            /\ received' = <<>>
            /\ stop' = IF cfg.stream THEN TRUE ELSE stop
            /\ pc' = IF cfg.stream THEN "stream" ELSE "prompt"
            /\ UNCHANGED <<messages, active, events, exc>>
    /\ signals' = <<>>
    /\ UNCHANGED <<cfg, quota, user_messages, thought, delivered, cur, b, tasks, finished,
                   creations>>
    /\ UNCHANGED <<retryVars, otherVars>>

\* llm.py 891-907: build the AssistantMessage, push it (popping the active id
\* if stop), yield the assistant_message update; thread.push may raise, into
\* the except block.
AppendAssistantMessage(content, names, st) ==
    \/ /\ messages' = PushMessages(messages,
                          <<AssistantMessage(NewAssistantId, content, Drafts(names),
                                             UserMessageId)>>)
       /\ active' = PushActive(active, {}, IF st THEN {UserMessageId} ELSE {})
       /\ events' = Append(events, [Update("assistant_message") EXCEPT
                                        !.message = NewAssistantId])
       /\ stop' = st
       /\ delivered' = IF st THEN delivered ELSE delivered + 1
       /\ cur' = NewAssistantId
       /\ b' = 0
       /\ tasks' = <<>>
       /\ finished' = <<>>
       /\ signals' = <<>>
       /\ pc' = "dispatch"
       /\ UNCHANGED exc
    \/ /\ TurnHandleException(UpstreamError)
       /\ UNCHANGED <<delivered, cur, b, tasks, finished, signals>>

\* The tool-call drafts a model result may carry.
DraftLists == SeqsUpTo(DraftTools, MaxTurnCalls - TotalCalls(messages))

\* await async_prompt(...) returns (content, tool_calls, stop), or raises
\* (llm.py 876-883).
PromptReturns ==
    /\ pc = "prompt"
    /\ \/ \E content \in Contents, names \in DraftLists, st \in BOOLEAN :
            /\ st \/ delivered < quota
            /\ AppendAssistantMessage(content, names, st)
       \/ /\ TurnHandleException(UpstreamError)
          /\ UNCHANGED <<delivered, cur, b, tasks, finished, signals>>
    /\ UNCHANGED <<cfg, quota, received, user_messages, thought, tools, round, chunks, creations>>
    /\ UNCHANGED <<retryVars, otherVars>>

\* What a stream whose stop flag is st still needs of MaxDelivered to end.
Reserved(st) == IF st THEN 0 ELSE 1

\* The text fragments a stream may carry; <<>> is the empty string.
Fragments == {<<>>, <<"Hel">>, <<"lo">>}

\* async for ... in async_prompt_stream: an ASSISTANT_TOKEN chunk (llm.py 857-863)
StreamToken ==
    /\ pc = "stream"
    /\ delivered + 1 + Reserved(stop) <= quota
    /\ \E content \in Fragments :
         /\ delivered' = delivered + 1
         /\ received' = Append(received, content)
         /\ IF content = <<>>
            THEN UNCHANGED <<chunks, events>>
            ELSE /\ chunks' = Append(chunks, content)
                 /\ events' = Append(events, [Update("assistant_token") EXCEPT
                                                  !.text = content])
    /\ UNCHANGED <<cfg, quota, signals, user_messages, messages, active, pc, thought, tools, stop,
                   round, cur, b, tasks, finished, creations, exc>>
    /\ UNCHANGED <<retryVars, otherVars>>

\* The finish reasons the providers report.
StopReasons == {"end_turn", "stop", "tool_use", "max_tokens", "content_filter"}

\* An ASSISTANT_STOP chunk that is heeded only when it is the round's first.
StreamStopFirstWins ==
    /\ pc = "stream"
    /\ \E reason \in StopReasons :
         /\ delivered + 1 + Reserved(reason = "end_turn" \/ reason = "stop") <= quota
         /\ stop' = IF signals = <<>> THEN (reason = "end_turn" \/ reason = "stop") ELSE stop
         /\ signals' = Append(signals, reason)
    /\ delivered' = delivered + 1
    /\ UNCHANGED <<cfg, quota, received, user_messages, messages, active, pc, thought, tools, round,
                   chunks, cur, b, tasks, finished, creations, events, exc>>
    /\ UNCHANGED <<retryVars, otherVars>>

\* an ASSISTANT_STOP chunk (llm.py 870-871)
StreamStop ==
    /\ pc = "stream"
    /\ \E reason \in StopReasons :
         /\ delivered + 1 + Reserved(reason = "end_turn" \/ reason = "stop") <= quota
         /\ stop' = (reason = "end_turn" \/ reason = "stop")
         /\ signals' = Append(signals, reason)
    /\ delivered' = delivered + 1
    /\ UNCHANGED <<cfg, quota, received, user_messages, messages, active, pc, thought, tools, round,
                   chunks, cur, b, tasks, finished, creations, events, exc>>
    /\ UNCHANGED <<retryVars, otherVars>>

\* A join that puts a separator between the chunks: ". ".join(content_chunks)
RECURSIVE JoinSeparated(_)
JoinSeparated(cs) ==
    IF cs = <<>> THEN <<>>
    ELSE IF Len(cs) = 1 THEN Head(cs)
    ELSE Head(cs) \o <<". ">> \o JoinSeparated(Tail(cs))

\* "".join(content_chunks)
RECURSIVE Join(_)
Join(cs) == IF cs = <<>> THEN <<>> ELSE Head(cs) \o Join(Tail(cs))

\* The stream ends after its TOOL_CALL chunks (llm.py 866-867, 873-874).
StreamEnds ==
    /\ pc = "stream"
    /\ \E names \in DraftLists : AppendAssistantMessage(Join(chunks), names, stop)
    /\ UNCHANGED <<cfg, quota, received, user_messages, thought, tools, round, chunks, creations>>
    /\ UNCHANGED <<retryVars, otherVars>>

\* The streamed model call raises.
StreamRaises ==
    /\ pc = "stream"
    /\ TurnHandleException(UpstreamError)
    /\ UNCHANGED <<cfg, quota, signals, received, user_messages, thought, tools, round, chunks, delivered, cur, b,
                   tasks, finished, creations>>
    /\ UNCHANGED <<retryVars, otherVars>>

\* The invocations: every combination of the flags, with one incoming message
\* that does not name the agent or two of which the first does, on a thread
\* that holds an earlier message still marked active.
UserInputs ==
    {<<UserMessage(2, <<"hello">>)>>,
     <<UserMessage(2, <<"hey", "Eve">>), UserMessage(3, <<"hello">>)>>}

\* The flags are independent arguments, each read at one place of the turn
\* (the limiter, the thought, the model call), and the number of incoming
\* messages only fixes which ids are pushed.  A turn that deliberates for a
\* human sender is the long one, so for it the arguments are varied one at a
\* time against the defaults of the signature; every other turn takes every
\* combination.
VariedArguments(c, ms) ==
    {f \in {"rate_limits", "force_reply", "stream"} : c[f]}
        \cup (IF Len(ms) > 1 THEN {"user_messages"} ELSE {})

Invocations ==
    {inv \in [cfg : [rate_limits : BOOLEAN, thinking : BOOLEAN, bot : BOOLEAN,
                     force_reply : BOOLEAN, stream : BOOLEAN],
              user_messages : UserInputs] :
        (inv.cfg.thinking /\ ~inv.cfg.bot)
            => Cardinality(VariedArguments(inv.cfg, inv.user_messages)) <= 1}

\* The thread before the invocation.
InitialMessages == <<UserMessage(1, <<"earlier">>)>>
InitialActive == {1}

Init ==
    /\ RetryIdle
    /\ OtherIdle
    /\ \E inv \in Invocations :
          /\ cfg = inv.cfg
          /\ user_messages = inv.user_messages
    /\ messages = InitialMessages
    /\ active = InitialActive
    /\ pc = "start"
    /\ thought = NoThought
    /\ tools = CallerTools
    /\ stop = FALSE
    /\ round = 0
    /\ chunks = <<>>
    /\ delivered = 0
    /\ cur = 0
    /\ b = 0
    /\ tasks = <<>>
    /\ creations = {}
    /\ events = <<>>
    /\ exc = "none"
    /\ received = <<>>
    /\ finished = <<>>
    /\ quota = MaxDelivered
    /\ signals = <<>>

Next ==
    \/ Begin
    \/ RateLimitChecked
    \/ Think
    \/ Decide
    \/ RoundBegin
    \/ PromptReturns
    \/ StreamToken
    \/ StreamStop
    \/ StreamEnds
    \/ StreamRaises
    \/ \E i \in 0..(MaxCalls - 1) : ToolCallBegin(i)
    \/ \E i \in 0..(MaxCalls - 1) : ToolCallStarted(i)
    \/ \E i \in 0..(MaxCalls - 1) : ToolCallWaited(i)
    \/ LaunchBatch
    \/ GatherReturns
    \/ GatherRaises
    \/ DispatchDone
    \/ EndPrompt

Spec == Init /\ [][Next]_vars

NextRetry ==
    \/ RetryBegin
    \/ RetryCallOk
    \/ RetryCallFails
    \/ RetryWakeInner
    \/ RetryWakeOuter

TurnIdle ==
    /\ cfg = [rate_limits |-> FALSE, thinking |-> FALSE, bot |-> FALSE,
              force_reply |-> FALSE, stream |-> FALSE]
    /\ user_messages = <<>>
    /\ messages = <<>>
    /\ active = {}
    /\ pc = "idle"
    /\ thought = NoThought
    /\ tools = {}
    /\ stop = FALSE
    /\ round = 0
    /\ chunks = <<>>
    /\ delivered = 0
    /\ cur = 0
    /\ b = 0
    /\ tasks = <<>>
    /\ creations = {}
    /\ events = <<>>
    /\ exc = "none"
    /\ received = <<>>
    /\ finished = <<>>
    /\ quota = MaxDelivered
    /\ signals = <<>>

InitRetry == RetryIdle /\ TurnIdle /\ OtherIdle

\* The whole turn when the caller keeps consuming the generator and every
\* awaited call (model, tool start and wait, persistence) comes back, with a
\* result or with an exception: a step that can be taken is eventually taken.
\* The model hands out at most quota results that ask for another round.
SpecLive == Init /\ [][Next]_vars /\ WF_vars(Next)

SpecRetry == InitRetry /\ [][NextRetry]_vars

SpecDispatch == InitDispatch /\ [][NextDispatch]_vars

\* The dispatcher on its own with every call of the message naming a tool on
\* offer, so that a whole batch of external tasks runs at the same time.
InitBatch ==
    /\ RetryIdle
    /\ OtherIdle
    /\ cfg = [rate_limits |-> FALSE, thinking |-> TRUE, bot |-> FALSE,
              force_reply |-> FALSE, stream |-> FALSE]
    /\ user_messages = <<UserMessage(2, <<"hey", "Eve">>)>>
    /\ \E n \in 1..MaxCalls :
          messages = <<UserMessage(2, <<"hey", "Eve">>),
                       AssistantMessage(11, <<"ok">>, Drafts([k \in 1..n |-> "search"]), 2)>>
    /\ active = {}
    /\ pc = "dispatch"
    /\ thought = [intention |-> "reply", tools |-> "base", recall_knowledge |-> FALSE]
    /\ tools = BaseTools
    /\ stop = TRUE
    /\ round = 1
    /\ chunks = <<>>
    /\ delivered = 0
    /\ cur = 11
    /\ b = 0
    /\ tasks = <<>>
    /\ creations = {}
    /\ events = <<Update("start_prompt"), [Update("assistant_message") EXCEPT !.message = 11]>>
    /\ exc = "none"
    /\ received = <<>>
    /\ finished = <<>>
    /\ quota = MaxDelivered
    /\ signals = <<>>

SpecBatch == InitBatch /\ [][NextDispatch]_vars

(***************************************************************************)
(* The turn without the thinking step: the fallback decision (llm.py       *)
(* 761-799) on incoming messages that name the agent, nearly name it or    *)
(* do not                                                                  *)
(***************************************************************************)

\* Contents of incoming messages; <<>> is a message without content.
MentionContents ==
    {<<>>, <<"hello">>, <<"hey", "Eve">>, <<"EVE">>, <<"eve!">>, <<"Steve">>, <<"evening">>}

\* One or two incoming messages.
MentionInputs ==
    {<<UserMessage(2, c)>> : c \in MentionContents}
        \cup {<<UserMessage(2, c), UserMessage(3, d)>> : c \in MentionContents, d \in MentionContents}

InitFallback ==
    /\ RetryIdle
    /\ OtherIdle
    /\ cfg \in [rate_limits : {FALSE}, thinking : {FALSE}, bot : {FALSE},
                force_reply : BOOLEAN, stream : BOOLEAN]
    /\ user_messages \in MentionInputs
    /\ messages = InitialMessages
    /\ active = InitialActive
    /\ pc = "start"
    /\ thought = NoThought
    /\ tools = CallerTools
    /\ stop = FALSE
    /\ round = 0
    /\ chunks = <<>>
    /\ delivered = 0
    /\ cur = 0
    /\ b = 0
    /\ tasks = <<>>
    /\ creations = {}
    /\ events = <<>>
    /\ exc = "none"
    /\ received = <<>>
    /\ finished = <<>>
    /\ quota = MaxDelivered
    /\ signals = <<>>

NextFallback ==
    \/ Begin
    \/ Think
    \/ Decide
    \/ RoundBegin
    \/ EndPrompt

SpecFallback == InitFallback /\ [][NextFallback]_vars

(***************************************************************************)
(* The streaming model call: async_prompt_stream (llm.py 307-352) over     *)
(* async_anthropic_prompt_stream (93-143) and async_openai_prompt_stream   *)
(* (187-258)                                                               *)
(***************************************************************************)

\* model.startswith("claude")
StartsWithClaude(model) == model \in {"claude-3-5-sonnet-20241022"}

\* What the provider streams: a text delta, a finished tool_use block, a
\* stop reason.
StreamItems == {"text", "tool_use", "stop_reason"}

\* The caller iterates async_prompt_stream(...). Both @retry wrappers call
\* the function they wrap once; being an async generator function it returns
\* its generator without running a line of its body, so each tier sees its
\* first attempt succeed.
StreamCalled ==
    /\ rpc = "idle"
    /\ request' \in StreamRequests
    /\ rpc' = "created"
    /\ outerAttempt' = 1
    /\ innerAttempt' = 1
    /\ UNCHANGED <<calls, waits, trace, raisedErr>>
    /\ UNCHANGED <<turnVars, otherVars>>

\* The provider request is sent and accepted, or fails; the exception goes to
\* the iterating caller.
StreamRequestSent ==
    /\ calls' = calls + 1
    /\ \/ /\ trace' = Append(trace, "ok")
          /\ rpc' = "streaming"
          /\ UNCHANGED raisedErr
       \/ \E kind \in ErrorKinds :
            /\ trace' = Append(trace, kind)
            /\ raisedErr' = [kind |-> kind, call |-> calls + 1, wrapped |-> FALSE]
            /\ rpc' = "raised"

StreamRejected(kind) ==
    /\ raisedErr' = [kind |-> kind, call |-> 0, wrapped |-> FALSE]
    /\ rpc' = "raised"
    /\ UNCHANGED <<calls, trace>>

\* The first step of the iteration runs the adapter's body up to the
\* provider request.
StreamOpens ==
    /\ rpc = "created"
    /\ IF StartsWithClaude(request.model)
       THEN StreamRequestSent
       ELSE IF ~request.api_key
       THEN StreamRejected("ValueError")
       ELSE IF request.response_model
       THEN StreamRejected("NotImplementedError")
       ELSE StreamRequestSent
    /\ UNCHANGED <<outerAttempt, innerAttempt, waits, request>>
    /\ UNCHANGED <<turnVars, otherVars>>

\* The provider streams one more item.
StreamItem ==
    /\ rpc = "streaming"
    /\ Len(trace) <= MaxChunks
    /\ \E item \in StreamItems : trace' = Append(trace, item)
    /\ UNCHANGED <<rpc, outerAttempt, innerAttempt, calls, waits, raisedErr, request>>
    /\ UNCHANGED <<turnVars, otherVars>>

\* The provider connection fails while the stream is read.
StreamBreaks ==
    /\ rpc = "streaming"
    /\ \E kind \in ErrorKinds :
         /\ trace' = Append(trace, kind)
         /\ raisedErr' = [kind |-> kind, call |-> calls, wrapped |-> FALSE]
    /\ rpc' = "raised"
    /\ UNCHANGED <<outerAttempt, innerAttempt, calls, waits, request>>
    /\ UNCHANGED <<turnVars, otherVars>>

\* The stream is exhausted.
StreamCloses ==
    /\ rpc = "streaming"
    /\ rpc' = "returned"
    /\ UNCHANGED <<outerAttempt, innerAttempt, calls, waits, trace, raisedErr, request>>
    /\ UNCHANGED <<turnVars, otherVars>>

NextStreamCall ==
    \/ StreamCalled
    \/ StreamOpens
    \/ StreamItem
    \/ StreamBreaks
    \/ StreamCloses

SpecStreamCall == InitRetry /\ [][NextStreamCall]_vars

(***************************************************************************)
(* Streaming rounds on their own: the turn from its first round on, after   *)
(* a reply decision, with stream = true                                     *)
(***************************************************************************)

InitStreamRound ==
    /\ RetryIdle
    /\ OtherIdle
    /\ cfg = [rate_limits |-> FALSE, thinking |-> TRUE, bot |-> FALSE,
              force_reply |-> FALSE, stream |-> TRUE]
    /\ user_messages = <<UserMessage(2, <<"hey", "Eve">>)>>
    /\ messages = InitialMessages \o user_messages
    /\ active = InitialActive \cup {2}
    /\ pc = "round"
    /\ \E category \in {"base", "creation"} :
          thought = [thought |-> "some", intention |-> "reply", tools |-> category,
                     recall_knowledge |-> FALSE]
    /\ tools = CallerTools
    /\ stop = FALSE
    /\ round = 0
    /\ chunks = <<>>
    /\ delivered = 0
    /\ cur = 0
    /\ b = 0
    /\ tasks = <<>>
    /\ creations = {}
    /\ events = <<Update("start_prompt")>>
    /\ exc = "none"
    /\ received = <<>>
    /\ finished = <<>>
    /\ quota = MaxChunks
    /\ signals = <<>>

NextStreamRound ==
    \/ RoundBegin
    \/ StreamToken
    \/ StreamStop
    \/ StreamEnds
    \/ StreamRaises
    \/ \E i \in 0..(MaxCalls - 1) : ToolCallBegin(i)
    \/ \E i \in 0..(MaxCalls - 1) : ToolCallStarted(i)
    \/ \E i \in 0..(MaxCalls - 1) : ToolCallWaited(i)
    \/ LaunchBatch
    \/ GatherReturns
    \/ GatherRaises
    \/ DispatchDone
    \/ EndPrompt

SpecStreamRound == InitStreamRound /\ [][NextStreamRound]_vars

(***************************************************************************)
(* async_openai_prompt_stream: assembling the tool-call drafts             *)
(***************************************************************************)

\* tool_call.index of a delta; NoIndex stands for None.
NoIndex == -1
DeltaIndices == {0, 1}

\* tool_call.function.arguments of a delta: the empty string, whole objects,
\* a piece of an object, a bare number and an array of pairs.
ArgumentFragments ==
    {"", "{\"a\": 1}", "{\"a\": 2}", "{\"b\": 1}", "{\"a\":", "1", "[[\"b\", 2]]"}

\* An empty dict.
EmptyArgs == [k \in {} |-> 0]

\* json.loads(text) for the fragments above.
JsonLoads(text) ==
    CASE text = "{\"a\": 1}"    -> [kind |-> "object", value |-> [k \in {"a"} |-> 1]]
      [] text = "{\"a\": 2}"    -> [kind |-> "object", value |-> [k \in {"a"} |-> 2]]
      [] text = "{\"b\": 1}"    -> [kind |-> "object", value |-> [k \in {"b"} |-> 1]]
      [] text = "1"             -> [kind |-> "number", value |-> EmptyArgs]
      [] text = "[[\"b\", 2]]"  -> [kind |-> "array", value |-> [k \in {"b"} |-> 2]]
      [] OTHER                  -> [kind |-> "JSONDecodeError", value |-> EmptyArgs]

\* dict.update(new): the keys of new overwrite those of current.
Updated(current, new) ==
    [k \in DOMAIN current \cup DOMAIN new |->
        IF k \in DOMAIN new THEN new[k] ELSE current[k]]

\* while len(tool_calls) <= index: tool_calls.append(None)
RECURSIVE Padded(_, _)
Padded(calls_, index) ==
    IF Len(calls_) <= index THEN Padded(Append(calls_, NoDraft), index) ELSE calls_

\* The stream is opened (llm.py 217-221).
OpenStream ==
    /\ mpc = "idle"
    /\ mpc' = "stream"
    /\ UNCHANGED <<tool_calls, deltas, yielded, merr>>
    /\ UNCHANGED <<retryVars, turnVars, handlerVars>>

\* One tool_call of a chunk's delta.tool_calls (llm.py 231-249): the slot of
\* its index is created if need be; a non-empty arguments string is parsed
\* and merged into the slot's args; only json.JSONDecodeError is caught, so
\* the TypeError of dict.update on a number leaves the generator.
ToolCallDelta ==
    /\ mpc = "stream"
    /\ Len(deltas) < MaxChunks
    /\ \E index \in DeltaIndices \cup {NoIndex}, arguments \in ArgumentFragments :
         /\ deltas' = Append(deltas, [index |-> index, arguments |-> arguments])
         /\ IF index = NoIndex
            THEN UNCHANGED <<tool_calls, mpc, merr>>
            ELSE LET padded == Padded(tool_calls, index)
                     slot == IF padded[index + 1] = NoDraft
                             THEN [tool |-> "search", args |-> EmptyArgs]
                             ELSE padded[index + 1]
                     parsed == JsonLoads(arguments)
                 IN  IF arguments = "" \/ parsed.kind = "JSONDecodeError"
                     THEN /\ tool_calls' = [padded EXCEPT ![index + 1] = slot]
                          /\ UNCHANGED <<mpc, merr>>
                     ELSE IF parsed.kind \in {"object", "array"}
                     THEN /\ tool_calls' = [padded EXCEPT ![index + 1] =
                                 [slot EXCEPT !.args = Updated(slot.args, parsed.value)]]
                          /\ UNCHANGED <<mpc, merr>>
                     ELSE /\ tool_calls' = [padded EXCEPT ![index + 1] = slot]
                          /\ mpc' = "raised"
                          /\ merr' = "TypeError"
    /\ UNCHANGED yielded
    /\ UNCHANGED <<retryVars, turnVars, handlerVars>>

IsDraft(slot) == slot # NoDraft

\* The stream is exhausted: every slot that is not None is yielded as a
\* TOOL_CALL (llm.py 255-258).
StreamExhausted ==
    /\ mpc = "stream"
    /\ yielded' = SelectSeq(tool_calls, IsDraft)
    /\ mpc' = "done"
    /\ UNCHANGED <<tool_calls, deltas, merr>>
    /\ UNCHANGED <<retryVars, turnVars, handlerVars>>

InitMerge == RetryIdle /\ TurnIdle /\ MergeIdle /\ HandlerIdle

NextMerge == OpenStream \/ ToolCallDelta \/ StreamExhausted

SpecMerge == InitMerge /\ [][NextMerge]_vars




(***************************************************************************)
(* The task handler: _task_handler (task.py 59-122) and the waiter         *)
(* ComfyUITool.async_wait (comfyui_tool.py 53-58)                          *)
(***************************************************************************)

\* task.cost is None
NoCost == -1

\* Task.cost of the tasks handled; 60 is divided evenly by every sample count.
TaskCosts == {NoCost, 60}

\* task.args.get("n_samples", 1)
SampleCounts == 0..MaxSamples

\* Task.update(**fields): set the given fields of the document and save it.
TaskUpdate(doc, fields) ==
    [f \in DOMAIN doc |-> IF f \in DOMAIN fields THEN fields[f] ELSE doc[f]]

\* A refund that takes no account of the samples already done.
RefundAmountInFull(doc) == IF doc.cost = NoCost THEN 0 ELSE doc.cost

\* (task.cost or 0) * (n_samples - len(task.result or [])) / n_samples
RefundAmount(doc) ==
    ((IF doc.cost = NoCost THEN 0 ELSE doc.cost) * (doc.n_samples - Len(doc.result)))
        \div doc.n_samples

\* A handler that reports every sample but the first as still running.
SampleUpdateFirstOnly(k, n, rs) ==
    [status |-> IF k = 0 THEN "completed" ELSE "running", result |-> rs]

\* task_update after sample k of n (task.py 82-91)
SampleUpdate(k, n, rs) ==
    [status |-> IF k = n - 1 THEN "completed" ELSE "running", result |-> rs]

\* The handler is entered: task.update(status="running", ...) (task.py 59-73)
HandlerBegin ==
    /\ hpc = "idle"
    /\ task' = TaskUpdate(task, [status |-> "running"])
    /\ hpc' = "loop"
    /\ UNCHANGED <<task_update, results, sample, outcomes, refunds, returned, herr, waited>>
    /\ UNCHANGED <<retryVars, turnVars, mergeVars>>

\* One pass of the loop whose run and upload succeed (task.py 75-91): the
\* result is added; every sample but the last is written to the task.
SampleSucceeds ==
    /\ hpc = "loop"
    /\ sample < task.n_samples
    /\ LET rs == Append(results, "output")
           upd == SampleUpdate(sample, task.n_samples, rs)
       IN  /\ results' = rs
           /\ task_update' = TaskUpdate(task_update, upd)
           /\ task' = IF sample = task.n_samples - 1 THEN task ELSE TaskUpdate(task, upd)
    /\ outcomes' = Append(outcomes, "ok")
    /\ sample' = sample + 1
    /\ UNCHANGED <<hpc, refunds, returned, herr, waited>>
    /\ UNCHANGED <<retryVars, turnVars, mergeVars>>

\* The run or the upload of a sample raises (task.py 80-84).
SampleFails ==
    /\ hpc = "loop"
    /\ sample < task.n_samples
    /\ outcomes' = Append(outcomes, "error")
    /\ herr' = "sample error"
    /\ hpc' = "except"
    /\ UNCHANGED <<task, task_update, results, sample, refunds, returned, waited>>
    /\ UNCHANGED <<retryVars, turnVars, mergeVars>>

\* return task_update.copy() after the loop (task.py 96); with no sample
\* task_update was never assigned and the read raises UnboundLocalError.
LoopEnds ==
    /\ hpc = "loop"
    /\ sample >= task.n_samples
    /\ IF task_update.status = "unbound"
       THEN /\ herr' = "UnboundLocalError"
            /\ hpc' = "except"
            /\ UNCHANGED returned
       ELSE /\ returned' = task_update.status
            /\ hpc' = "finally"
            /\ UNCHANGED herr
    /\ UNCHANGED <<task, task_update, results, sample, outcomes, refunds, waited>>
    /\ UNCHANGED <<retryVars, turnVars, mergeVars>>

\* except Exception as error (task.py 98-113): task_update is the failure,
\* the refund is computed and issued, the failure is returned; the division
\* raises ZeroDivisionError when n_samples is 0.
HandleFailure ==
    /\ hpc = "except"
    /\ task_update' = [status |-> "failed", result |-> task_update.result, error |-> herr]
    /\ IF task.n_samples = 0
       THEN /\ herr' = "ZeroDivisionError"
            /\ UNCHANGED <<refunds, returned>>
       ELSE /\ refunds' = Append(refunds, RefundAmount(task))
            /\ returned' = "failed"
            /\ herr' = "none"
    /\ hpc' = "finally"
    /\ UNCHANGED <<task, results, sample, outcomes, waited>>
    /\ UNCHANGED <<retryVars, turnVars, mergeVars>>

\* finally (task.py 115-121): task.update(**task_update); then the handler
\* returns, or the pending exception leaves it.
HandlerFinally ==
    /\ hpc = "finally"
    /\ task' = TaskUpdate(task, IF task_update.status = "failed"
                                THEN [status |-> "failed", error |-> task_update.error]
                                ELSE [status |-> task_update.status,
                                      result |-> task_update.result])
    /\ hpc' = IF herr = "none" THEN "returned" ELSE "raised"
    /\ UNCHANGED <<task_update, results, sample, outcomes, refunds, returned, herr, waited>>
    /\ UNCHANGED <<retryVars, turnVars, mergeVars>>

\* async_wait (comfyui_tool.py 53-58): the handler's call has returned; the
\* task is reloaded and its status, error and result are handed back.
AsyncWait ==
    /\ hpc = "returned"
    /\ waited' = task.status
    /\ hpc' = "waited"
    /\ UNCHANGED <<task, task_update, results, sample, outcomes, refunds, returned, herr>>
    /\ UNCHANGED <<retryVars, turnVars, mergeVars>>

\* A pending task of any cost and sample count is handed to the handler.
InitHandler ==
    /\ RetryIdle
    /\ TurnIdle
    /\ MergeIdle
    /\ hpc = "idle"
    /\ \E cost \in TaskCosts, n \in SampleCounts :
          task = [status |-> "pending", result |-> <<>>, error |-> "none", cost |-> cost,
                  n_samples |-> n]
    /\ task_update = NoUpdate
    /\ results = <<>>
    /\ sample = 0
    /\ outcomes = <<>>
    /\ refunds = <<>>
    /\ returned = "none"
    /\ herr = "none"
    /\ waited = "none"

NextHandler ==
    \/ HandlerBegin
    \/ SampleSucceeds
    \/ SampleFails
    \/ LoopEnds
    \/ HandleFailure
    \/ HandlerFinally
    \/ AsyncWait

SpecHandler == InitHandler /\ [][NextHandler]_vars

(***************************************************************************)
(* Properties of the orchestration loop (checked under Spec)               *)
(***************************************************************************)

\* The text made of the given fragments, in order.
RECURSIVE Concatenation(_)
Concatenation(fs) == IF fs = <<>> THEN <<>> ELSE Head(fs) \o Concatenation(Tail(fs))

\* An update of a tool call: it carries the call's index.
IsToolUpdate(u) == u.tool_index >= 0

CountType(type) == Cardinality({k \in DOMAIN events : events[k].type = type})

\* The caller's iteration over the generator is over: it returned or raised.
TurnEnded == pc \in {"done", "raised"}

\* The invocation reached the active loop: it marked its message active and
\* yielded start_prompt.
ReachedLoop == events # <<>>

\* Error updates of the turn's except block (they carry the apology message).
TurnErrors == Cardinality({k \in DOMAIN events :
                              events[k].type = "error" /\ events[k].message # 0})

Apologies == Cardinality({k \in DOMAIN messages : messages[k].content = Apology})

\* C1: an invocation that reaches the active loop emits exactly one
\* start_prompt, as its first event, and exactly one end_prompt, as its last
\* event, whatever the model call, the tool calls and persistence do.
TurnBracketed ==
    ReachedLoop =>
        /\ events[1].type = "start_prompt"
        /\ CountType("start_prompt") = 1
        /\ CountType("end_prompt") <= 1
        /\ (CountType("end_prompt") = 1 => events[Len(events)].type = "end_prompt")
        /\ (TurnEnded => events[Len(events)].type = "end_prompt")

\* C2: no exception leaves async_prompt_thread: the caller sees failures only
\* as error updates.
NoExceptionEscapes == pc # "raised"

\* C3: when an invocation that marked its user message active has come to an
\* end, that id is no longer in the active set.
ActiveClearedAtEnd ==
    (ReachedLoop /\ TurnEnded) => UserMessageId \notin active

\* C4: an invocation whose decision is ignore emits no event, makes no round
\* model call and leaves the active set as it was; its incoming messages are
\* appended to the transcript by the time it returns.
IgnoredTurnSilent ==
    (pc \in {"round", "prompt", "stream", "dispatch", "gather", "end", "done", "raised"}
        /\ thought.intention = "ignore")
        => /\ events = <<>>
           /\ round = 0
           /\ active = InitialActive
           /\ pc \in {"done", "raised"}
           /\ (pc = "done" => messages = InitialMessages \o user_messages)
           /\ (pc = "raised" => messages = InitialMessages)

IgnoredTurnReached ==
    /\ pc = "done"
    /\ thought.intention = "ignore"
    /\ ~cfg.force_reply
    /\ messages = InitialMessages \o user_messages
    /\ Len(user_messages) = 2

\* C5: when an exception escapes a step of a round, tool dispatch included,
\* the loop appends one apology, clears the active id, emits one error update
\* with the exception's message, makes no further model call or dispatch and
\* emits end_prompt. (An exception raised by the except block itself is not
\* counted as a step of the round.)
DispatchRaised == \E i \in DOMAIN tasks : tasks[i].pc = "raised"

RoundExceptionHandled ==
    /\ (TurnErrors > 0) =>
          /\ TurnErrors = 1
          /\ Apologies = 1
          /\ messages[Len(messages)].content = Apology
          /\ UserMessageId \notin active
          /\ pc \in {"end", "done"}
          /\ (pc = "done" => events[Len(events)].type = "end_prompt")
    /\ (DispatchRaised /\ pc # "gather") =>
          /\ TurnErrors = 1
          /\ Apologies = 1
          /\ UserMessageId \notin active
          /\ pc \in {"end", "done"}

\* C12: in every round of a turn whose Thought selected the base category,
\* the tools offered to the model are exactly the caller's tools that are in
\* the base set or were invoked by an assistant message earlier in the
\* transcript, a tool first invoked in an earlier round of the turn included.
OfferedToolsBasePlusInvoked ==
    (pc \in {"prompt", "stream"} /\ thought.tools = "base")
        => tools = {k \in CallerTools : k \in BaseTools \cup CalledTools(messages)}

\* C13: with force_reply the decision is reply: the Thought of the Intent
\* step has intention reply whatever its model answered, the fallback Thought
\* has it even when the agent is not mentioned, and the invocation goes on to
\* the loop instead of returning.
ForcedReplyDecides ==
    (cfg.force_reply /\ thought # NoThought)
        => /\ thought.intention = "reply"
           /\ ShouldReply
           /\ pc = "done" => ReachedLoop

ForcedReplyReached ==
    /\ cfg.force_reply
    /\ ~cfg.thinking
    /\ ~AgentMentioned
    /\ thought.intention = "reply"
    /\ ReachedLoop
    /\ UserMessageId \in active

\* C14: the id marked active by a reply decision stays active through every
\* round whose result has stop = false, and is removed once in every
\* invocation: by the round whose result has stop = true, or by a turn-level
\* error; so it is active while rounds go on and gone when the invocation is
\* over.
ActiveUntilTerminalRound ==
    ReachedLoop =>
        /\ pc \in {"round", "prompt", "stream"} => UserMessageId \in active
        /\ (pc \in {"dispatch", "gather"} /\ ~stop) => UserMessageId \in active
        /\ (pc \in {"dispatch", "gather"} /\ stop) => UserMessageId \notin active
        /\ TurnErrors > 0 => UserMessageId \notin active
        /\ pc \in {"end", "done", "raised"} => UserMessageId \notin active

\* C16: an invocation for a bot-flagged sender emits no event, makes no
\* model call (no Intent step, no round) and leaves the thread as it was:
\* nothing is appended and the active set is not touched.
BotTurnSilent ==
    cfg.bot =>
        /\ events = <<>>
        /\ thought = NoThought
        /\ round = 0
        /\ pc \notin {"think", "decide", "round", "prompt", "stream"}
        /\ messages = InitialMessages
        /\ active = InitialActive

BotTurnReached ==
    /\ cfg.bot
    /\ cfg.thinking
    /\ cfg.force_reply
    /\ AgentMentioned
    /\ pc = "done"

\* Two versions of a message that differ at most in the state of its tool calls.
SameMessage(old, new) ==
    /\ new.id = old.id
    /\ new.role = old.role
    /\ new.content = old.content
    /\ new.reply_to = old.reply_to
    /\ Len(new.tool_calls) = Len(old.tool_calls)
    /\ \A j \in DOMAIN old.tool_calls : new.tool_calls[j].tool = old.tool_calls[j].tool

\* C17: every step only appends to the transcript: the transcript before the
\* step is a prefix of the transcript after it, so no message is removed,
\* replaced or reordered (a tool call's state is updated in its message).
TranscriptAppendOnly ==
    [][\/ messages' = messages
       \/ /\ Len(messages') >= Len(messages)
          /\ \A k \in DOMAIN messages : SameMessage(messages[k], messages'[k])]_vars

TranscriptGrownReached ==
    /\ pc = "done"
    /\ Len(messages) = Len(InitialMessages) + Len(user_messages) + 2
    /\ Len(user_messages) = 2
    /\ Apologies = 1
    /\ \E k \in DOMAIN messages : messages[k].tool_calls # <<>>

\* The calls of the running dispatch that failed: the coroutine returned an
\* error update, or raised.
FailedCalls ==
    {i \in DOMAIN tasks :
        \/ tasks[i].pc = "raised"
        \/ tasks[i].pc = "done" /\ tasks[i].update.type = "error"}

\* C25: the failure of a tool call does not end or alter the rest of the
\* turn: while the round's calls are dispatched no apology is appended and no
\* turn-level error update is emitted, and the dispatch ends as it does when
\* every call succeeded, in another round if stop = false and in the end of
\* the turn if stop = true.
ToolFailureContained ==
    [][(pc \in {"dispatch", "gather"} /\ FailedCalls # {}) =>
          /\ Apologies' = 0
          /\ TurnErrors' = 0
          /\ \/ pc' \in {"dispatch", "gather"}
             \/ /\ pc' = (IF stop THEN "end" ELSE "round")
                /\ \A i \in DOMAIN tasks : tasks[i].pc = "done"
                /\ UNCHANGED <<messages, active, events, stop>>]_vars

\* The model result of the running round has been appended and yielded.
RoundDelivered == round > 0 /\ CountType("assistant_message") = round

\* Position of the assistant_message update of the running round.
RoundMessageAt ==
    CHOOSE k \in DOMAIN events :
        /\ events[k].type = "assistant_message"
        /\ \A j \in DOMAIN events : j > k => events[j].type # "assistant_message"

\* The updates emitted for call i of the running round's message.
RoundUpdatesFor(i) ==
    {k \in DOMAIN events : k > RoundMessageAt /\ events[k].tool_index = i}

RoundCallsAnswered ==
    \A i \in 0..(Len(CurToolCalls) - 1) :
        /\ i \in DOMAIN tasks
        /\ Cardinality(RoundUpdatesFor(i)) = 1

\* C26: after a round whose result has stop = true the round's tool calls
\* are still dispatched and their updates emitted, and then the loop is left
\* without another model call; the loop is left without an error only after
\* such a round, so after a round with stop = false it goes round again.
StopDecidesExit ==
    /\ pc = "round" => ~stop
    /\ (ReachedLoop /\ pc \in {"end", "done"} /\ TurnErrors = 0) =>
          /\ stop
          /\ RoundDelivered
          /\ RoundCallsAnswered
    /\ (pc = "raised" /\ stop /\ RoundDelivered) => RoundCallsAnswered

\* The message with the given id, as the transcript holds it.
MessageById(id) == messages[CHOOSE k \in DOMAIN messages : messages[k].id = id]

\* Position of the assistant_message update that event k follows.
MessageUpdateBefore(k) ==
    CHOOSE n \in 1..(k - 1) :
        /\ events[n].type = "assistant_message"
        /\ \A j \in (n + 1)..(k - 1) : events[j].type # "assistant_message"

\* The generator is suspended at a yield or has returned: the states a
\* caller that stops consuming after an event leaves the thread in.
AtYield == ReachedLoop /\ pc \in {"round", "stream", "dispatch", "end", "done"}

\* C28: every emitted update reflects a mutation that is already persisted.
\* The message of an assistant_message update (and the apology of a
\* turn-level error update) is in the transcript; the ToolCall of a
\* tool_complete update has the status completed and the update's result,
\* the ToolCall of an error update the status failed and the update's error.
\* At every yield no call is left between its start and its final state, so
\* a caller that stops after any event leaves no half-applied mutation.
EmittedAfterPersisted ==
    /\ \A k \in DOMAIN events :
          LET u == events[k] IN
          /\ u.message # 0 =>
                /\ \E n \in DOMAIN messages : messages[n].id = u.message
                /\ MessageById(u.message).role = "assistant"
                /\ MessageById(u.message).reply_to = UserMessageId
                /\ u.type = "error" => MessageById(u.message).content = Apology
          /\ IsToolUpdate(u) =>
                LET msg == MessageById(events[MessageUpdateBefore(k)].message)
                    tc == msg.tool_calls[u.tool_index + 1]
                IN /\ u.type \in {"tool_complete", "error"}
                   /\ tc.tool = u.tool_name
                   /\ u.type = "tool_complete" =>
                         /\ tc.status = "completed"
                         /\ tc.result = u.result
                   /\ u.type = "error" =>
                         /\ tc.status = "failed"
                         /\ tc.error = u.error
    /\ AtYield =>
          /\ \A i \in DOMAIN tasks : tasks[i].pc = "done"
          /\ \A n \in DOMAIN messages : \A j \in DOMAIN messages[n].tool_calls :
                messages[n].tool_calls[j].status \in {"none", "completed", "failed"}

EmittedAfterPersistedReached ==
    /\ pc = "dispatch"
    /\ ~stop
    /\ b > 0
    /\ \E k \in DOMAIN events :
          /\ events[k].type = "tool_complete"
          /\ k = Len(events)
    /\ CurToolCalls[1].status = "completed"
    /\ UserMessageId \in active

\* C31: with rate limiting enabled the limiter is consulted exactly once per
\* invocation, as the first step: before the Intent step, before any round
\* and before any change of the thread; when it trips, no model call is made
\* and the thread is left as it was.
RateLimiterFirst ==
    [][/\ pc' = "rate_limit" => (pc = "start" /\ cfg.rate_limits)
       /\ (pc = "start" /\ cfg.rate_limits) => pc' = "rate_limit"
       /\ pc \in {"start", "rate_limit"} =>
             /\ messages = InitialMessages /\ messages' = messages
             /\ active = InitialActive /\ active' = active
             /\ thought = NoThought /\ thought' = thought
             /\ round = 0 /\ round' = 0
             /\ events = <<>> /\ events' = <<>>
       /\ exc' = "rate limit exceeded" =>
             /\ pc' = "raised"
             /\ cfg.rate_limits
             /\ messages' = InitialMessages
             /\ active' = InitialActive
             /\ thought' = NoThought
             /\ round' = 0]_vars

RateLimiterTrippedReached ==
    /\ cfg.rate_limits
    /\ cfg.thinking
    /\ ~cfg.bot
    /\ pc = "raised"
    /\ exc = "rate limit exceeded"
    /\ messages = InitialMessages

\* The AssistantMessages the rounds of the turn appended (the apology is
\* appended by the except block, not by a round).
RoundMessages ==
    {k \in DOMAIN messages :
        /\ k > Len(InitialMessages)
        /\ messages[k].role = "assistant"
        /\ messages[k].content # Apology}

\* The step in which a round's model call has returned and its result is
\* appended and yielded.
RoundCompletes == pc \in {"prompt", "stream"} /\ pc' = "dispatch"

\* C32: a round that completes without error appends exactly one
\* AssistantMessage, built from the round's content and tool-call drafts with
\* reply_to the id of the last incoming message, and emits exactly one
\* assistant_message update, for that message; no other step appends such a
\* message or emits such an update, so k error-free rounds append exactly k
\* AssistantMessages.
RoundAppendsOneMessage ==
    /\ [](/\ Cardinality(RoundMessages) = CountType("assistant_message")
          /\ CountType("assistant_message") \in {round - 1, round}
          /\ pc \in {"dispatch", "gather"} => CountType("assistant_message") = round
          /\ (pc = "done" /\ TurnErrors = 0) => CountType("assistant_message") = round)
    /\ [][IF RoundCompletes
          THEN LET m == messages'[Len(messages')] IN
               /\ Len(messages') = Len(messages) + 1
               /\ SubSeq(messages', 1, Len(messages)) = messages
               /\ m.role = "assistant"
               /\ m.reply_to = user_messages[Len(user_messages)].id
               /\ \A k \in DOMAIN messages : messages[k].id # m.id
               /\ IF cfg.stream THEN m.content = Concatenation(chunks)
                                ELSE m.content \in Contents
               /\ \A j \in DOMAIN m.tool_calls :
                     /\ m.tool_calls[j].tool \in DraftTools
                     /\ m.tool_calls[j] = NewToolCall(m.tool_calls[j].tool)
               /\ events' = Append(events, [Update("assistant_message") EXCEPT
                                                !.message = m.id])
          ELSE /\ CountType("assistant_message")' = CountType("assistant_message")
               /\ Cardinality(RoundMessages)' = Cardinality(RoundMessages)]_vars

RoundAppendsOneMessageReached ==
    /\ pc = "done"
    /\ TurnErrors = 0
    /\ round = 2
    /\ Cardinality(RoundMessages) = 2
    /\ \E k \in RoundMessages : messages[k].tool_calls # <<>> /\ messages[k].content = <<"ok">>
    /\ \E k \in RoundMessages : messages[k].content = <<>>

\* The finish reasons that denote natural completion.
NaturalCompletion(reason) == reason \in {"end_turn", "stop"}

\* The stop flag the finish reasons received so far in a streamed round give.
FlagOf(reasons) ==
    IF reasons = <<>> THEN TRUE ELSE NaturalCompletion(reasons[Len(reasons)])

\* C33: in streaming mode the round's stop flag is true exactly when the last
\* finish reason received is "end_turn" or "stop"; any other reason (tool
\* use, token limit, content filter) makes it false, and a round whose flag
\* is false is never followed by the end of the turn but by another round; a
\* stream that ends without any finish reason has the flag true.
StreamStopFlag ==
    /\ [](pc = "stream" => stop = FlagOf(signals))
    /\ [][/\ (pc = "stream" /\ pc' = "dispatch") => stop' = FlagOf(signals)
          /\ (pc = "dispatch" /\ ~stop) => pc' # "end"
          /\ (pc = "dispatch" /\ pc' = "round") => ~stop
          /\ (pc = "dispatch" /\ pc' = "end") => stop]_vars

StreamStopFlagReached ==
    /\ cfg.stream
    /\ pc = "stream"
    /\ round = 2
    /\ TurnErrors = 0
    /\ CountType("assistant_message") = 1
    /\ signals = <<"stop">>
    /\ stop
    /\ UserMessageId \in active

EndEmitted == \E k \in DOMAIN events : events[k].type = "end_prompt"

\* C35: every invocation that reaches the active loop eventually emits
\* end_prompt, when every awaited call comes back and the model eventually
\* returns stop = true or fails.
LoopEventuallyEnds == ReachedLoop ~> EndEmitted

\* The same, setting aside the turns an exception leaves.
LoopEndsOrRaises == ReachedLoop ~> (EndEmitted \/ pc = "raised")

\* The deltas received for an index whose arguments parse as a JSON object.
ObjectFragments(index) ==
    LET IsObjectFor(d) == d.index = index /\ JsonLoads(d.arguments).kind = "object"
    IN  SelectSeq(deltas, IsObjectFor)

\* The left-to-right merge of the objects of the given deltas.
RECURSIVE MergeOf(_)
MergeOf(ds) ==
    IF ds = <<>> THEN EmptyArgs
    ELSE Updated(MergeOf(SubSeq(ds, 1, Len(ds) - 1)), JsonLoads(ds[Len(ds)].arguments).value)

IndicesReceived == {deltas[k].index : k \in DOMAIN deltas} \ {NoIndex}

\* One draft for every index from i on that received a delta, in index order.
RECURSIVE DraftsFrom(_)
DraftsFrom(i) ==
    IF i \notin DeltaIndices THEN <<>>
    ELSE (IF i \in IndicesReceived
          THEN <<[tool |-> "search", args |-> MergeOf(ObjectFragments(i))]>>
          ELSE <<>>) \o DraftsFrom(i + 1)

StreamOver == mpc \in {"done", "raised"}

\* C34: when the OpenAI stream is over, exactly one draft has been yielded
\* for each index that received a delta, and its arguments are the
\* left-to-right merge of exactly those fragments of that index that parse as
\* JSON objects; no fragment aborts the stream.
DraftsMergeObjectFragments ==
    StreamOver => /\ mpc = "done"
                  /\ yielded = DraftsFrom(0)

\* The same, for the streams none of whose fragments parses as something
\* other than an object.
OnlyObjectsOrUnparsable ==
    \A k \in DOMAIN deltas :
        deltas[k].arguments = ""
            \/ JsonLoads(deltas[k].arguments).kind \in {"object", "JSONDecodeError"}

DraftsMergeWhenOnlyObjects ==
    (StreamOver /\ OnlyObjectsOrUnparsable) => /\ mpc = "done"
                                               /\ yielded = DraftsFrom(0)

(***************************************************************************)
(* Properties of the dispatcher (checked under SpecDispatch)               *)
(***************************************************************************)

Unfinished(i) == tasks[i].pc \in {"new", "starting", "waiting"}

BatchOf(i) == i \div BatchSize

\* Updates yielded for tool call i of the dispatched message.
UpdatesFor(i) == {k \in DOMAIN events : events[k].tool_index = i}

DispatchOver == pc \in {"end", "done", "raised"}

\* C7: a tool call whose name does not resolve never gets a task, ends with
\* status failed and yields exactly one update, an error update; every other
\* call of the batch that completed still yields exactly one update, a
\* tool_complete update.
UnresolvedCallFailsAlone ==
    \A i \in DOMAIN tasks :
        LET tc == CurToolCalls[i + 1] IN
        /\ tc.tool \notin tools =>
              /\ tc.task = "none"
              /\ tc.status \in {"none", "failed"}
              /\ tasks[i].pc \notin {"starting", "waiting"}
              /\ tasks[i].pc = "done" =>
                    /\ tc.status = "failed"
                    /\ tasks[i].update.type = "error"
                    /\ tasks[i].update.tool_index = i
              /\ DispatchOver =>
                    /\ Cardinality(UpdatesFor(i)) = 1
                    /\ \A k \in UpdatesFor(i) : events[k].type = "error"
        /\ (tc.tool \in tools /\ tc.status = "completed" /\ tasks[i].pc = "done") =>
              /\ tasks[i].update.type = "tool_complete"
              /\ DispatchOver =>
                    /\ Cardinality(UpdatesFor(i)) = 1
                    /\ \A k \in UpdatesFor(i) : events[k].type = "tool_complete"

\* Every update a coroutine returned, and every update yielded, carries the
\* index and the tool name of its own call.
UpdatesAddressed ==
    /\ \A i \in DOMAIN tasks :
          tasks[i].pc = "done" => /\ tasks[i].update.tool_index = i
                                  /\ tasks[i].update.tool_name = CurToolCalls[i + 1].tool
    /\ \A i \in 0..(Len(CurToolCalls) - 1) :
          /\ Cardinality(UpdatesFor(i)) <= 1
          /\ \A k \in UpdatesFor(i) : events[k] = tasks[i].update

\* A step that changes the ToolCall at a position is a step of the coroutine
\* of that position, and of no other.
PatchesAddressed ==
    \A k \in DOMAIN CurToolCalls :
        CurToolCalls'[k] # CurToolCalls[k] =>
            /\ (k - 1) \in DOMAIN tasks
            /\ Unfinished(k - 1)
            /\ tasks'[k - 1] # tasks[k - 1]
            /\ \A j \in DOMAIN tasks : j # k - 1 => tasks'[j] = tasks[j]

\* C36: for a message with N tool calls the dispatcher processes every index
\* 0..N-1 exactly once: when it is over each call has run once and yielded
\* one update; every patch and every update of a call is addressed by the
\* call's own position in the list, and no two calls patch the same ToolCall.
EveryIndexProcessedOnce ==
    /\ [](UpdatesAddressed)
    /\ [](DispatchOver => \A i \in 0..(Len(CurToolCalls) - 1) :
                              /\ i \in DOMAIN tasks
                              /\ tasks[i].pc = "done"
                              /\ Cardinality(UpdatesFor(i)) = 1)
    /\ [][PatchesAddressed]_vars

\* The same, setting aside the dispatches an exception leaves.
EveryIndexProcessedUnlessRaised ==
    /\ [](UpdatesAddressed)
    /\ []((DispatchOver /\ pc # "raised") =>
              \A i \in 0..(Len(CurToolCalls) - 1) :
                  /\ i \in DOMAIN tasks
                  /\ tasks[i].pc = "done"
                  /\ Cardinality(UpdatesFor(i)) = 1)
    /\ [][PatchesAddressed]_vars

\* The tool_complete and error updates of tool calls yielded so far.
ToolEvents == SelectSeq(events, IsToolUpdate)

\* The last batch launched has returned and its results have been yielded.
LastBatchYielded == pc \in {"dispatch", "end", "done"} /\ b > 0

\* C15: tool updates are emitted batch by batch, and within a batch in the
\* order in which its calls finished.
UpdatesInFinishOrder ==
    LastBatchYielded =>
        LET n == Len(finished)
            m == Len(ToolEvents)
        IN /\ m >= n
           /\ \A j \in 1..n : ToolEvents[m - n + j].tool_index = finished[j]

\* C15 as amended: tool updates are emitted batch by batch in batch order,
\* a batch's updates only once all of its calls have finished, and within a
\* batch in launch (index) order whatever the order the calls finished in.
UpdatesInLaunchOrder ==
    /\ \A j \in 1..Len(ToolEvents) :
          /\ ToolEvents[j].tool_index = j - 1
          /\ tasks[j - 1].pc = "done"
          /\ ToolEvents[j] = tasks[j - 1].update
    /\ pc \in {"gather", "raised"} => Len(ToolEvents) = b
    /\ pc \in {"dispatch", "end", "done"} =>
          Len(ToolEvents) = Min(b, Len(CurToolCalls))

UpdatesInLaunchOrderReached ==
    /\ pc = "done"
    /\ Len(finished) >= 2
    /\ finished[1] > finished[2]
    /\ Len(ToolEvents) = Len(CurToolCalls)
    /\ \E j \in 1..(Len(ToolEvents) - 1) :
          /\ ToolEvents[j].tool_index = finished[2]
          /\ ToolEvents[j + 1].tool_index = finished[1]

\* C18: for an AssistantMessage with N tool calls the dispatcher emits
\* exactly N tool updates, one per call, each a tool_complete or an error
\* update carrying that call's tool name and index.
OneUpdatePerCall ==
    /\ \A k \in DOMAIN events :
          IsToolUpdate(events[k]) =>
              /\ events[k].type \in {"tool_complete", "error"}
              /\ events[k].tool_index < Len(CurToolCalls)
              /\ events[k].tool_name = CurToolCalls[events[k].tool_index + 1].tool
    /\ \A i \in 0..(Len(CurToolCalls) - 1) : Cardinality(UpdatesFor(i)) <= 1
    /\ DispatchOver =>
          /\ Len(ToolEvents) = Len(CurToolCalls)
          /\ \A i \in 0..(Len(CurToolCalls) - 1) : Cardinality(UpdatesFor(i)) = 1

\* C22: once a call's external task has been started, and before the wait
\* on it begins, its ToolCall is persisted with the task reference and the
\* status running.
StartedCallPersistedRunning ==
    \A i \in DOMAIN tasks :
        tasks[i].pc = "waiting" =>
            /\ CurToolCalls[i + 1].task # "none"
            /\ CurToolCalls[i + 1].status = "running"

\* The wait on call i reported the status completed: only then is a result
\* patched onto the ToolCall.
TaskCompleted(i) == CurToolCalls[i + 1].result # "none"

\* C23: a failure while registering the Creation of a call whose task
\* completed does not change the call's outcome: the ToolCall keeps the
\* status completed with its result, and the call's update is a
\* tool_complete update, not an error update.
CreationFailureHarmless ==
    \A i \in DOMAIN tasks :
        (TaskCompleted(i) /\ tasks[i].pc \in {"done", "raised"}) =>
            /\ tasks[i].pc = "done"
            /\ CurToolCalls[i + 1].status = "completed"
            /\ tasks[i].update.type = "tool_complete"
            /\ tasks[i].update.result = CurToolCalls[i + 1].result

\* The wait on call i reported a final status other than completed, with the
\* task's own error message.
TaskReportedFailure(i) == CurToolCalls[i + 1].error = "task error"

\* C24: when the wait on a call reports a final status other than completed,
\* that status and error are persisted on the ToolCall, no Creation is
\* registered for the call, and exactly one error update, carrying the
\* task's own error message, is emitted for it.
TaskFailureReported ==
    \A i \in DOMAIN tasks :
        TaskReportedFailure(i) =>
            /\ CurToolCalls[i + 1].status = "failed"
            /\ <<cur, i>> \notin creations
            /\ tasks[i].pc = "done"
            /\ tasks[i].update = ToolUpdate("error", i, "none", "task error")
            /\ Cardinality(UpdatesFor(i)) <= 1
            /\ \A k \in UpdatesFor(i) : events[k] = tasks[i].update
            /\ DispatchOver => Cardinality(UpdatesFor(i)) = 1


(***************************************************************************)
(* Properties of a batch of running tasks (checked under SpecBatch)        *)
(***************************************************************************)

\* A call is in flight from the moment its coroutine asks the tool to start
\* the external task until the coroutine returns or raises.
InFlight == {i \in DOMAIN tasks : tasks[i].pc \in {"starting", "waiting"}}

\* C21: at most 4 tool calls are in flight at the same time, and at most 4
\* coroutines that have not finished exist at the same time, also after an
\* exception of one call has left the dispatcher while its siblings run on.
AtMostFourInFlight ==
    /\ Cardinality(InFlight) <= 4
    /\ Cardinality({i \in DOMAIN tasks : Unfinished(i)}) <= 4

FourInFlightReached ==
    /\ Len(CurToolCalls) = 5
    /\ InFlight = 0..3
    /\ \A i \in InFlight : tasks[i].pc = "waiting" /\ CurToolCalls[i + 1].status = "pending"
    /\ 4 \notin DOMAIN tasks


(***************************************************************************)
(* Properties of streaming rounds (checked under SpecStreamRound)          *)
(***************************************************************************)

NonEmptyFragment(f) == f # <<>>

\* The non-empty fragments of the running round, in arrival order.
ReceivedText == SelectSeq(received, NonEmptyFragment)

\* Position of the last event that is not an assistant_token update.
LastNonToken ==
    CHOOSE k \in DOMAIN events :
        /\ events[k].type # "assistant_token"
        /\ \A j \in DOMAIN events : j > k => events[j].type = "assistant_token"

\* Position of the last assistant_message update.
LastAssistantMessage ==
    CHOOSE k \in DOMAIN events :
        /\ events[k].type = "assistant_message"
        /\ \A j \in DOMAIN events : j > k => events[j].type # "assistant_message"

TokenUpdate(f) == [Update("assistant_token") EXCEPT !.text = f]

\* The round's AssistantMessage has been appended and its update yielded.
RoundMessageYielded ==
    \/ pc \in {"dispatch", "gather"}
    \/ pc \in {"end", "done"} /\ TurnErrors = 0

\* C11: in a streaming round one assistant_token update is emitted per
\* non-empty fragment received, in arrival order, and none for an empty one;
\* the round's AssistantMessage has the concatenation of those fragments as
\* content, and all the token updates come right before its
\* assistant_message update.
StreamedTokensAssembled ==
    /\ pc = "stream" =>
          /\ chunks = ReceivedText
          /\ Len(events) - LastNonToken = Len(ReceivedText)
          /\ \A j \in 1..Len(ReceivedText) :
                events[LastNonToken + j] = TokenUpdate(ReceivedText[j])
    /\ RoundMessageYielded =>
          LET k == LastAssistantMessage
              n == Len(ReceivedText)
          IN /\ events[k].message = cur
             /\ messages[CurPos].content = Concatenation(ReceivedText)
             /\ k - n - 1 >= 1
             /\ events[k - n - 1].type # "assistant_token"
             /\ \A j \in 1..n : events[k - n - 1 + j] = TokenUpdate(ReceivedText[j])

StreamedTokensAssembledReached ==
    /\ pc = "dispatch"
    /\ received = <<(<<"Hel">>), <<>>, (<<"lo">>)>>
    /\ messages[CurPos].content = <<"Hel", "lo">>
    /\ Cardinality({k \in DOMAIN events : events[k].type = "assistant_token"}) = 2


\* The events a step appends.
Emitted == (Len(events) + 1)..Len(events')

\* C27: events of different rounds never interleave. Every step only appends
\* events. A token update is emitted by the running round while that round's
\* assistant_message update is still to come; the assistant_message update is
\* the round's only one; both are emitted only when every call of the round
\* before has got its update. A tool update is emitted after the
\* assistant_message update of the running round and belongs to a call of
\* that round's message.
RoundsNeverInterleave ==
    [][/\ Len(events') >= Len(events)
       /\ SubSeq(events', 1, Len(events)) = events
       /\ \A k \in Emitted :
             LET u == events'[k] IN
             /\ u.type \in {"assistant_token", "assistant_message"} =>
                   /\ CountType("assistant_message") = round - 1
                   /\ round > 1 => RoundCallsAnswered
             /\ u.type = "assistant_token" => pc = "stream"
             /\ u.type = "assistant_message" =>
                   /\ Emitted = {k}
                   /\ u.message = cur'
                   /\ messages'[Len(messages')].id = cur'
             /\ IsToolUpdate(u) =>
                   /\ CountType("assistant_message") = round
                   /\ events[RoundMessageAt].message = cur
                   /\ u.tool_index < Len(CurToolCalls)
                   /\ u.tool_name = CurToolCalls[u.tool_index + 1].tool
                   /\ \A j \in DOMAIN events :
                         j > RoundMessageAt => /\ IsToolUpdate(events[j])
                                               /\ events[j].tool_index < u.tool_index]_vars

RoundsNeverInterleaveReached ==
    /\ pc = "done"
    /\ round = 2
    /\ \E i \in DOMAIN events, j \in DOMAIN events, k \in DOMAIN events, l \in DOMAIN events :
          /\ i < j /\ j < k /\ k < l
          /\ events[i].type = "assistant_message"
          /\ IsToolUpdate(events[j])
          /\ events[k].type = "assistant_token"
          /\ events[l].type = "assistant_message"



(***************************************************************************)
(* Properties of the turn without the thinking step (checked under         *)
(* SpecFallback)                                                           *)
(***************************************************************************)

\* The contents of MentionContents in which the name Eve occurs as a word,
\* in any case.
NamingContents == {<<"hey", "Eve">>, <<"EVE">>, <<"eve!">>}

SomeMessageNames == \E k \in DOMAIN user_messages : user_messages[k].content \in NamingContents

\* C29: with the thinking step disabled the decision is reply if and only if
\* force_reply is set or the agent's name occurs, in any case and as a word,
\* in the content of at least one incoming message; otherwise it is ignore,
\* and the turn returns without an event.
FallbackDecision ==
    (~cfg.thinking /\ thought # NoThought) =>
        /\ thought.intention \in {"reply", "ignore"}
        /\ thought.intention = "reply" <=> (cfg.force_reply \/ SomeMessageNames)
        /\ ShouldReply <=> (cfg.force_reply \/ SomeMessageNames)
        /\ (ShouldReply /\ pc \notin {"decide", "raised"}) => ReachedLoop
        /\ ~ShouldReply => events = <<>> /\ round = 0 /\ pc \in {"decide", "done", "raised"}

FallbackDecisionReached ==
    /\ ~cfg.thinking
    /\ ~cfg.force_reply
    /\ Len(user_messages) = 2
    /\ user_messages[1].content = <<"eve!">>
    /\ user_messages[2].content = <<"Steve">>
    /\ thought.intention = "reply"
    /\ ReachedLoop

\* C30: with the thinking step disabled and a reply decision the first
\* round reaches the model call: unless a collaborator (model, store, tool)
\* failed, the turn ends with an assistant_message update emitted and no
\* error update.
FallbackReplyAnswered ==
    (~cfg.thinking /\ thought # NoThought /\ ShouldReply /\ pc \in {"end", "done"}) =>
        \/ \E k \in DOMAIN events :
              events[k].type = "error" /\ events[k].error = UpstreamError
        \/ /\ CountType("error") = 0
           /\ CountType("assistant_message") >= 1
           /\ round >= 1

(***************************************************************************)
(* Properties of the streaming model call (checked under SpecStreamCall)   *)
(***************************************************************************)

\* The iteration of the stream has begun.
StreamBegun == rpc \in {"streaming", "returned", "raised"}

\* C19: a streaming call that asks for a structured-output schema is
\* rejected as a configuration error before any request is sent to the
\* provider, whatever the model identifier.
StructuredStreamRejected ==
    (request.response_model /\ StreamBegun)
        => /\ rpc = "raised"
           /\ calls = 0
           /\ raisedErr.kind \in {"NotImplementedError", "ValueError"}

\* C20: the streaming model call is guarded by the retry policy: a
\* rate-limit or transient error it raises reaches the caller only after 3
\* attempts of the tier that retries it.
StreamedCallRetried ==
    (rpc = "raised" /\ (IsRateLimitError(raisedErr.kind) \/ IsTransientError(raisedErr.kind)))
        => calls = 3


(***************************************************************************)
(* Properties of the retry policy (checked under SpecRetry)                *)
(***************************************************************************)

RetryEnded == rpc \in {"returned", "raised"}

AllRateLimited ==
    /\ trace # <<>>
    /\ \A i \in 1..Len(trace) : IsRateLimitError(trace[i])

AllTransient ==
    /\ trace # <<>>
    /\ \A i \in 1..Len(trace) : trace[i] \in {"APIConnectionError", "InternalServerError"}

(***************************************************************************)
(* Properties of the task handler (checked under SpecHandler)              *)
(***************************************************************************)

\* The handler has returned or an exception has left it.
HandlerFinished == hpc \in {"returned", "raised", "waited"}

\* The sample runs that succeeded so far.
Completed == Cardinality({k \in DOMAIN outcomes : outcomes[k] = "ok"})

AllSamplesSucceeded == Len(outcomes) = task.n_samples /\ Completed = task.n_samples

\* C38: the handler refunds the task's user only when a sample run fails,
\* exactly once per task with a failed run, the amount being cost x
\* (n_samples - samples already completed) / n_samples; a task whose samples
\* all succeed triggers no refund.
RefundOncePerFailedTask ==
    /\ refunds # <<>> => Completed < Len(outcomes)
    /\ Len(refunds) <= 1
    /\ \A k \in DOMAIN refunds :
          refunds[k] * task.n_samples =
              (IF task.cost = NoCost THEN 0 ELSE task.cost) * (task.n_samples - Completed)
    /\ (HandlerFinished /\ Completed < Len(outcomes)) =>
          /\ Len(refunds) = 1
          /\ task.status = "failed"
    /\ (HandlerFinished /\ AllSamplesSucceeded) => refunds = <<>>

RefundOncePerFailedTaskReached ==
    /\ hpc = "returned"
    /\ task.n_samples = 3
    /\ task.cost = 60
    /\ outcomes = <<"ok", "error">>
    /\ Len(task.result) = 1
    /\ refunds = <<40>>
    /\ task.status = "failed"

\* C39: for a task with n_samples >= 1 the handler first persists status
\* running; when it has finished the persisted status is completed if every
\* one of the n_samples runs succeeded and failed otherwise, never pending or
\* running; the status it returns, and the status the waiter reads back,
\* equal the persisted one.
TaskStatusSettled ==
    task.n_samples >= 1 =>
        /\ (hpc = "idle") = (task.status = "pending")
        /\ (hpc = "loop" /\ sample = 0) => task.status = "running"
        /\ task.status = "completed" => (AllSamplesSucceeded /\ HandlerFinished)
        /\ HandlerFinished =>
              /\ task.status = IF AllSamplesSucceeded THEN "completed" ELSE "failed"
              /\ returned = task.status
              /\ hpc # "raised"
              /\ hpc = "waited" => waited = task.status

TaskStatusSettledReached ==
    /\ hpc = "waited"
    /\ task.n_samples = 2
    /\ outcomes = <<"ok", "ok">>
    /\ task.status = "completed"
    /\ Len(task.result) = 2
    /\ waited = "completed"
    /\ refunds = <<>>

\* C37: the transient tier runs inside the rate-limit tier and counts its
\* attempts anew in every outer attempt, so one guarded call makes at most
\* 3 x 3 = 9 underlying calls, whatever the sequence of failures: at most 3
\* in each outer attempt, and at most 3 outer attempts.
AtMostNineCalls ==
    /\ calls <= 9
    /\ calls <= RateLimitAttempts * TransientAttempts
    /\ outerAttempt <= RateLimitAttempts
    /\ innerAttempt <= TransientAttempts
    /\ rpc # "idle" =>
          /\ calls <= TransientAttempts * (outerAttempt - 1) + innerAttempt
          /\ calls >= outerAttempt + innerAttempt - 2

NineCallsReached ==
    /\ RetryEnded
    /\ calls = 9
    /\ outerAttempt = 3
    /\ innerAttempt = 3
    /\ Len(trace) = 9

\* C8: a guarded call that is rate-limited on attempts 1 and 2 and succeeds on
\* attempt 3 returns the result after exactly 3 underlying calls and exactly 2
\* backoff waits, of 5 and then 10 time units.
RateLimitedTwiceThenSuccess ==
    trace = <<"RateLimitError", "RateLimitError", "ok">>
        => /\ rpc = "returned"
           /\ calls = 3
           /\ waits = <<5, 10>>
           /\ raisedErr = NoError

RateLimitedTwiceThenSuccessReached ==
    /\ trace = <<"RateLimitError", "RateLimitError", "ok">>
    /\ rpc = "returned"

\* C9: when every attempt fails with errors of one retried class, the
\* underlying call is made exactly 3 times and then the last attempt's own
\* exception is raised to the caller, not wrapped and not translated.
ExhaustedRetriesReraise ==
    (AllRateLimited \/ AllTransient)
        => /\ calls <= 3
           /\ (calls = 3 => rpc = "raised")
           /\ (RetryEnded => /\ rpc = "raised"
                             /\ calls = 3
                             /\ raisedErr = [kind |-> trace[3], call |-> 3, wrapped |-> FALSE])

ExhaustedRetriesReached ==
    /\ rpc = "raised"
    /\ calls = 3
    /\ trace \in {<<"RateLimitError", "RateLimitError", "RateLimitError">>,
                  <<"APIConnectionError", "InternalServerError", "APIConnectionError">>}

\* C10: an error outside both retried classes is raised to the caller by the
\* very call that produced it: no call follows it and no wait is slept for
\* it; as the first outcome it ends the guarded call after one underlying
\* call and no wait.
UnclassifiedErrorNotRetried ==
    \A i \in 1..Len(trace) :
        (trace[i] \notin {"ok", "RateLimitError", "APIConnectionError", "InternalServerError"})
            => /\ i = Len(trace)
               /\ calls = i
               /\ rpc = "raised"
               /\ raisedErr = [kind |-> trace[i], call |-> i, wrapped |-> FALSE]
               /\ Len(waits) = i - 1

UnclassifiedErrorReached ==
    /\ trace = <<"ValueError">>
    /\ rpc = "raised"
    /\ calls = 1
    /\ waits = <<>>

====
